---- MODULE Spec2Model ----
(***************************************************************************)
(* A model of translator-agent: the unit segmenter, the per-unit           *)
(* translate/review/polish pipeline, the concurrent document orchestrator, *)
(* the directory batch and the glossary merge.                             *)
(*                                                                         *)
(* Texts.  A Python str (or None) is a record [k, ls].  k = "str" is text  *)
(* cut from the document: ls is its sequence of line pieces [c, p, nl],    *)
(* c the kind of the line, p the line's position in the document and nl    *)
(* whether the piece carries its "\n".  The empty str is k = "str" with no *)
(* piece.  The other values of k are None and the texts the model service  *)
(* generates, which are opaque and, "ws" apart, hold visible characters.   *)
(* Python indexes from 0; sequences here are indexed from 1.               *)
(***************************************************************************)
EXTENDS Integers, Sequences, FiniteSets, TLC

\* ------------------------------------------------------------------ bounds
\* lines of a document given to the segmenter and to one translate_unit call
MaxLines == 4
\* lines of a file translated by translate_file
MaxFileLines == 2
\* Markdown files discovered under the input directory
MaxFiles == 2
\* lines of each file of a directory batch
MaxDirLines == 1
\* entries of one term-extraction response
MaxTerms == 2
\* rows of the glossary CSV file present at start-up
MaxRows == 1
\* lines of a document read by extract_terminology
MaxTermLines == 2
\* characters of a response to the term extraction request
MaxResponse == 4
\* entries of a glossary that is looked up, and lines of the text
MaxGlossary == 2
MaxLookupLines == 2
\* lines of a document without fences given to the segmenter
MaxSizeLines == 3
\* lines of the document, and units of the list, that is processed twice
MaxTwinLines == 2
MaxTwinUnits == 2

\* --------------------------------------------------------------- constants
\* Processor.min_unit_length
min_unit_length == 4000
\* the length below which extract_terms skips a text
min_extract_length == 30
\* the length below which find_relevant_terms skips a text
min_match_length == 10

\* ------------------------------------------------------------------- texts
\* Kinds of line: "F" holds a fence marker, the others do not and differ in
\* length: "S" a short line, "L" a line just short of the threshold, "X" a
\* line longer than the threshold.  ("M" is a line that fills a buffer holding
\* one short line up to the threshold; the documents of the size bound have it.)
LineKinds == {"F", "S", "L", "X"}

\* len(line), without the line terminator
LineLen(c) == CASE c = "F" -> 3 [] c = "S" -> 5 [] c = "P" -> 5 [] c = "M" -> 3994 [] c = "L" -> 3997 [] OTHER -> 4001

\* line.find("```") >= 0
IsFenceLine(c) == c = "F"

EmptyStr == [k |-> "str", ls |-> <<>>]
None == [k |-> "none", ls |-> <<>>]
\* a whitespace-only response
Blank == [k |-> "ws", ls |-> <<>>]
Gen(tag) == [k |-> tag, ls |-> <<>>]
\* "无法提供修改建议"
Sentinel == Gen("sentinel")
\* an argument a Gateway operation does not take
NoArg == Gen("noarg")

\* Python truthiness of a str or None
Truthy(t) == t # None /\ t # EmptyStr

\* text.strip() == ""
StripsToEmpty(t) == t = EmptyStr \/ t = Blank

RECURSIVE PiecesLen(_)
PiecesLen(ls) == IF ls = <<>> THEN 0 ELSE LineLen(Head(ls).c) + (IF Head(ls).nl THEN 1 ELSE 0) + PiecesLen(Tail(ls))

\* len(text) of a text cut from the document
TextLen(t) == PiecesLen(t.ls)

\* text += line (nl = FALSE) or text += line + "\n" (nl = TRUE)
AddLine(t, doc, i, nl) == [t EXCEPT !.ls = Append(@, [c |-> doc[i], p |-> i, nl |-> nl])]

\* ------------------------------------------------------------------ models
\* TranslationUnit()
NewUnit == [original_text |-> EmptyStr, translation |-> EmptyStr, polished_translation |-> EmptyStr, technical_terms |-> <<>>, suggestions |-> EmptyStr]

\* TranslationContext()
NewContext == [current_file |-> 0, current_unit_index |-> -1, total_units |-> 0]

\* TranslationResult(); file 0 stands for the empty path
NewResult == [success |-> TRUE, output_file |-> 0, error_message |-> ""]

\* is_code_block looking at the start of the text only
is_code_block_at_start(unit) == unit.original_text.ls # <<>> /\ IsFenceLine(unit.original_text.ls[1].c)

\* is_code_block asking for a closed block: an opening and a closing marker
is_code_block_closed(unit) == \E i, j \in DOMAIN unit.original_text.ls : i < j /\ IsFenceLine(unit.original_text.ls[i].c) /\ IsFenceLine(unit.original_text.ls[j].c)

\* utils.is_code_block
is_code_block(unit) == \E i \in DOMAIN unit.original_text.ls : IsFenceLine(unit.original_text.ls[i].c)

\* --------------------------------------------------------------- segmenter
\* original_text = line, in the place of original_text += line
WithLine_assigned(unit, doc, i, nl) == [unit EXCEPT !.original_text = AddLine(EmptyStr, doc, i, nl)]

\* current_unit.original_text += line, or line + "\n"
WithLine(unit, doc, i, nl) == [unit EXCEPT !.original_text = AddLine(@, doc, i, nl)]

\* a flush test that looks at the buffer alone
SizeFlush_buffer_only(cur, line) == TextLen(cur.original_text) > min_unit_length

\* The flush test of a line that holds no fence marker.
SizeFlush(cur, line) == TextLen(cur.original_text) + LineLen(line) > min_unit_length

\* The loop of _extract_translation_units from line i on, and the flush
\* after it.
RECURSIVE SegLoop(_, _, _, _, _)
SegLoop(doc, i, us, cur, in_code_block) ==
    IF i > Len(doc)
    THEN IF Truthy(cur.original_text) THEN Append(us, cur) ELSE us
    ELSE IF IsFenceLine(doc[i])
         THEN IF in_code_block
              THEN SegLoop(doc, i + 1, Append(us, WithLine(cur, doc, i, FALSE)), NewUnit, FALSE)
              ELSE SegLoop(doc, i + 1, IF Truthy(cur.original_text) THEN Append(us, cur) ELSE us, WithLine(NewUnit, doc, i, TRUE), TRUE)
         ELSE IF SizeFlush(cur, doc[i])
              THEN SegLoop(doc, i + 1, Append(us, cur), WithLine(NewUnit, doc, i, TRUE), in_code_block)
              ELSE SegLoop(doc, i + 1, us, WithLine(cur, doc, i, TRUE), in_code_block)

extract_translation_units(doc) == SegLoop(doc, 1, <<>>, NewUnit, FALSE)

\* ---------------------------------------------------------------- glossary
\* Characters of source terms and of the words of a text; \w of the re module.
IsWordChar(ch) == ch \in {"a", "A", "s", "e", "x", "y"}

LowerChar(ch) == IF ch = "A" THEN "a" ELSE ch

\* str.lower()
Lower(s) == [i \in DOMAIN s |-> LowerChar(s[i])]

RECURSIVE LStrip(_)
LStrip(s) == IF s # <<>> /\ Head(s) = " " THEN LStrip(Tail(s)) ELSE s

RECURSIVE RStrip(_)
RStrip(s) == IF s # <<>> /\ s[Len(s)] = " " THEN RStrip(SubSeq(s, 1, Len(s) - 1)) ELSE s

\* str.strip()
Strip(s) == RStrip(LStrip(s))

\* A glossary is a dict in insertion order: a sequence of <<key, target>>.
HasKey(d, key) == \E i \in DOMAIN d : d[i][1] = key

Lookup(d, key) == d[CHOOSE i \in DOMAIN d : d[i][1] = key][2]

\* The visible characters of a line of each kind: "#" is a backquote and the
\* long kinds are filler.  A line of kind "P" holds a word and its plural; no
\* document is made of it, the texts given to find_relevant_terms are.
LineChars(c) == CASE c = "F" -> <<"#", "#", "#">> [] c = "S" -> <<"a", "s", " ", "a", "a">> [] c = "P" -> <<"a", " ", "a", "s", ".">> [] OTHER -> <<".">>

RECURSIVE PiecesChars(_)
PiecesChars(ls) == IF ls = <<>> THEN <<>> ELSE LineChars(Head(ls).c) \o (IF Head(ls).nl THEN <<"\n">> ELSE <<>>) \o PiecesChars(Tail(ls))

\* \b at the gap before position p of s
WordBoundary(s, p) == (p > 1 /\ IsWordChar(s[p - 1])) # (p <= Len(s) /\ IsWordChar(s[p]))

\* re.search(r"\b" + re.escape(lit) + r"\b", s, re.IGNORECASE)
SearchWord(lit, s) == \E st \in 1..(Len(s) - Len(lit) + 1) : /\ \A j \in 1..Len(lit) : LowerChar(s[st + j - 1]) = LowerChar(lit[j])
                                                             /\ WordBoundary(s, st)
                                                             /\ WordBoundary(s, st + Len(lit))

EndsWith(s, suf) == Len(s) >= Len(suf) /\ SubSeq(s, Len(s) - Len(suf) + 1, Len(s)) = suf

\* The literal of plural_pattern for a source term.
PluralOf(eng) == IF \E suf \in {<<"s">>, <<"x">>, <<"z">>, <<"c", "h">>, <<"s", "h">>} : EndsWith(eng, suf)
                 THEN eng \o <<"e", "s">>
                 ELSE IF EndsWith(eng, <<"y">>) /\ Len(eng) > 1 /\ eng[Len(eng) - 1] \notin {"a", "e", "i", "o", "u"}
                      THEN SubSeq(eng, 1, Len(eng) - 1) \o <<"i", "e", "s">>
                      ELSE eng \o <<"s">>

\* sorted(items, key=len of the source term, reverse=True): stable
RECURSIVE SortedByLen(_, _)
SortedByLen(items, n) == IF n < 0 THEN <<>> ELSE SelectSeq(items, LAMBDA e : Len(e[1]) = n) \o SortedByLen(items, n - 1)

MaxKeyLen(items) == IF items = <<>> THEN 0 ELSE CHOOSE n \in {Len(items[i][1]) : i \in DOMAIN items} : \A i \in DOMAIN items : Len(items[i][1]) <= n

TermMatches(e, s) == /\ e[1] # <<>>
                     /\ e[2] # <<>>
                     /\ \/ SearchWord(e[1], s)
                        \/ ~SearchWord(PluralOf(e[1]), e[1]) /\ SearchWord(PluralOf(e[1]), s)

\* TerminologyManager.find_relevant_terms
find_relevant_terms(gloss, text) ==
    IF ~Truthy(text) \/ TextLen(text) < min_match_length THEN <<>>
    ELSE IF gloss = <<>> THEN <<>>
    ELSE SelectSeq(SortedByLen(gloss, MaxKeyLen(gloss)), LAMBDA e : TermMatches(e, PiecesChars(text.ls)))

\* a lookup that keeps in the glossary the entries it has found, and no other
terminology_after_lookup_pruned(gloss, text) == find_relevant_terms(gloss, text)

\* self.terminology after find_relevant_terms: the lookup sorts a copy of the
\* items and appends to a list of its own.
terminology_after_lookup(gloss, text) == gloss

\* TerminologyManager.get_terminology_string: the lines "eng: chn"
get_terminology_string(terms) == SelectSeq(terms, LAMBDA e : e[2] # <<>>)

\* ----------------------------------------------------------------- gateway
\* One exchange with the model service: it fails, or it answers with a
\* content.
ApiFail == [ok |-> FALSE, content |-> None]
ApiOutcomes(contents) == {ApiFail} \cup {[ok |-> TRUE, content |-> c] : c \in contents}

\* What the service may answer to each request; message.content may be None.
TranslateContents(text) == {None, EmptyStr, Gen("zh"), text}
ReviewContents == {None, EmptyStr, Blank, Gen("sug")}
PolishContents == {None, EmptyStr, Gen("pol")}

\* translate_text giving an empty text, not its input, when the call fails
translate_text_empty_on_failure(text, r) == IF r.ok THEN r.content ELSE EmptyStr

\* ApiClient.translate_text
translate_text(text, r) == IF r.ok THEN r.content ELSE text

\* review_translation handing on whatever the service answered
review_translation_unchecked(original, translation, r) == IF r.ok THEN r.content ELSE Sentinel

\* ApiClient.review_translation
review_translation(original, translation, r) == IF r.ok THEN (IF ~Truthy(r.content) \/ StripsToEmpty(r.content) THEN Sentinel ELSE r.content) ELSE Sentinel

\* polish_translation giving the original text when the call fails
polish_translation_original_on_failure(original, translation, suggestions, r) == IF r.ok THEN r.content ELSE original

\* ApiClient.polish_translation
polish_translation(original, translation, suggestions, r) == IF r.ok THEN r.content ELSE translation

\* A Gateway call as the call log keeps it.
Call(op, original, translation, suggestions, ok) == [op |-> op, original |-> original, translation |-> translation, suggestions |-> suggestions, ok |-> ok]

\* A glossary loaded at start-up from a file of one row.
OneTermGlossary == << <<<<"a">>, <<"x">>>> >>

\* ------------------------------------------------------------------- state
VARIABLES
    doc,            \* markdown_content of the file in hand, as its line kinds
    units,          \* the list of TranslationUnit of the file in hand
    pc,             \* where the orchestrating thread is
    task,           \* per unit, where its translate_unit call is
    calls,          \* per unit, the glossary lookups and Gateway calls made
    results,        \* the dict results, in insertion order
    terminology,    \* TerminologyManager.terminology, in insertion order
    outFiles,       \* per file, its output file: whether it exists, and its blocks
    context,        \* Processor.context
    result,         \* the TranslationResult of the translate_file call in hand
    exc,            \* the exception raised in that call, "" when none was
    wi,             \* the index i of the write loop
    nFiles,         \* how many Markdown files _find_markdown_files found
    fileIdx,        \* the file in hand: files are numbered 1..nFiles
    success_count,  \* of _translate_markdown_files
    failed_files,   \* of _translate_markdown_files
    history,        \* per file, the outcome of each translate_file call on it
    new_terms,      \* what the last extract_terms call returned
    terms_list,     \* what api_client.extract_terms returned to that call
    saved,          \* the rows of the glossary file
    save_log,       \* what the last save_terminology call logged: "" or its error
    last_op,        \* the last operation completed on the TerminologyManager
    events,         \* the calls extract_terminology has made, in order
    ui,             \* the unit in hand in the loop of extract_terminology
    api,            \* the last call of an ApiClient operation, with what it returned
    twin            \* a second run of the unit tasks, to compare with the first

orchVars == <<outFiles, context, result, exc, wi>>
dirVars == <<nFiles, fileIdx, success_count, failed_files, history>>
glossary == <<terminology, new_terms, terms_list>>
termVars == <<saved, save_log, last_op, events, ui>>
\* Nothing called yet.
NoCall == [op |-> ""]
\* No second run.
NoTwin == [i |-> 0]
vars == <<doc, units, pc, task, calls, results, terminology, outFiles, context, result, exc, wi, nFiles, fileIdx, success_count, failed_files, history, new_terms, terms_list, saved, save_log, last_op, events, ui, api, twin>>

\* All documents of at most n lines.
Docs(n) == UNION {[1..m -> LineKinds] : m \in 0..n}

\* ------------------------------------------------------------ translate_unit
Finished(i) == task[i] \in {"done", "raised"}

\* A stage of translate_unit gives the unit as it leaves it and the calls it
\* has made; r is what the model service does if the stage calls it.

\* a translate step that stores the translation over the text it was given
Translator_translate_text_in_place(u, gloss, r) ==
    IF is_code_block(u)
    THEN [unit |-> [u EXCEPT !.translation = u.original_text, !.polished_translation = u.original_text], calls |-> <<>>,
          terminology |-> gloss]
    ELSE [unit |-> [u EXCEPT !.technical_terms = find_relevant_terms(gloss, u.original_text),
                             !.translation = translate_text(u.original_text, r),
                             !.original_text = translate_text(u.original_text, r)],
          calls |-> << Call("find_relevant_terms", u.original_text, NoArg, NoArg, TRUE),
                       Call("translate", u.original_text, NoArg, NoArg, r.ok) >>,
          terminology |-> terminology_after_lookup(gloss, u.original_text)]

\* Translator.translate_unit up to the return of _translate_text: the code
\* passthrough, or the lookup and the translation.
Translator_translate_text(u, gloss, r) ==
    IF is_code_block(u)
    THEN [unit |-> [u EXCEPT !.translation = u.original_text, !.polished_translation = u.original_text], calls |-> <<>>,
          terminology |-> gloss]
    ELSE [unit |-> [u EXCEPT !.technical_terms = find_relevant_terms(gloss, u.original_text),
                             !.translation = translate_text(u.original_text, r)],
          calls |-> << Call("find_relevant_terms", u.original_text, NoArg, NoArg, TRUE),
                       Call("translate", u.original_text, NoArg, NoArg, r.ok) >>,
          terminology |-> terminology_after_lookup(gloss, u.original_text)]

\* a skip test that looks for an empty translation only
SkipReview_empty_only(u) == ~Truthy(u.translation)

\* The skip test of Translator._review_translation.
SkipReview(u) == ~Truthy(u.translation) \/ u.translation = u.original_text

\* Translator._review_translation
Translator_review_translation(u, r) ==
    IF SkipReview(u)
    THEN [unit |-> [u EXCEPT !.suggestions = EmptyStr], calls |-> <<>>]
    ELSE [unit |-> [u EXCEPT !.suggestions = review_translation(u.original_text, u.translation, r)],
          calls |-> << Call("review", u.original_text, u.translation, NoArg, r.ok) >>]

\* a polish step that has no short cut for a translation equal to the text
Translator_polish_translation_no_shortcut(u, r) ==
    IF ~Truthy(u.translation)
    THEN [unit |-> [u EXCEPT !.polished_translation = EmptyStr], calls |-> <<>>]
    ELSE [unit |-> [u EXCEPT !.polished_translation = polish_translation(u.original_text, u.translation, u.suggestions, r)],
          calls |-> << Call("polish", u.original_text, u.translation, u.suggestions, r.ok) >>]

\* a polish step that makes no call when the review gave no suggestions
Translator_polish_translation_needs_suggestions(u, r) ==
    IF ~Truthy(u.translation)
    THEN [unit |-> [u EXCEPT !.polished_translation = EmptyStr], calls |-> <<>>]
    ELSE IF u.translation = u.original_text \/ u.suggestions = Sentinel
         THEN [unit |-> [u EXCEPT !.polished_translation = u.translation], calls |-> <<>>]
         ELSE [unit |-> [u EXCEPT !.polished_translation = polish_translation(u.original_text, u.translation, u.suggestions, r)],
               calls |-> << Call("polish", u.original_text, u.translation, u.suggestions, r.ok) >>]

\* Translator._polish_translation
Translator_polish_translation(u, r) ==
    IF ~Truthy(u.translation)
    THEN [unit |-> [u EXCEPT !.polished_translation = EmptyStr], calls |-> <<>>]
    ELSE IF u.translation = u.original_text
         THEN [unit |-> [u EXCEPT !.polished_translation = u.translation], calls |-> <<>>]
         ELSE [unit |-> [u EXCEPT !.polished_translation = polish_translation(u.original_text, u.translation, u.suggestions, r)],
               calls |-> << Call("polish", u.original_text, u.translation, u.suggestions, r.ok) >>]

\* a polish step that does not wait for the review step
ReviewReturned_not_awaited(i) == task[i] \in {"translated", "reviewed"}

\* translate_unit is past its call of _review_translation.
ReviewReturned(i) == task[i] = "reviewed"

\* The model service has a part in a step only when the stage calls it.
Exchange(r, made) == made = <<>> => r = ApiFail

\* The first stage of translate_unit for unit i.
TranslateStep(i) ==
    /\ i \in DOMAIN task
    /\ task[i] = "queued"
    /\ \E r \in ApiOutcomes(TranslateContents(units[i].original_text)) :
          /\ Exchange(r, Translator_translate_text(units[i], terminology, ApiFail).calls)
          /\ units' = [units EXCEPT ![i] = Translator_translate_text(units[i], terminology, r).unit]
          /\ calls' = [calls EXCEPT ![i] = @ \o Translator_translate_text(units[i], terminology, r).calls]
          /\ terminology' = Translator_translate_text(units[i], terminology, r).terminology
    /\ task' = [task EXCEPT ![i] = IF is_code_block(units[i]) THEN "done" ELSE "translated"]
    /\ UNCHANGED <<doc, pc, results, new_terms, terms_list, orchVars, dirVars, termVars, api, twin>>

\* The call of _review_translation for unit i.
ReviewStep(i) ==
    /\ i \in DOMAIN task
    /\ task[i] = "translated"
    /\ \E r \in ApiOutcomes(ReviewContents) :
          /\ Exchange(r, Translator_review_translation(units[i], ApiFail).calls)
          /\ units' = [units EXCEPT ![i] = Translator_review_translation(units[i], r).unit]
          /\ calls' = [calls EXCEPT ![i] = @ \o Translator_review_translation(units[i], r).calls]
    /\ task' = [task EXCEPT ![i] = "reviewed"]
    /\ UNCHANGED <<doc, pc, results, glossary, orchVars, dirVars, termVars, api, twin>>

\* The call of _polish_translation for unit i, and the return of
\* translate_unit.
PolishStep(i) ==
    /\ i \in DOMAIN task
    /\ ReviewReturned(i)
    /\ \E r \in ApiOutcomes(PolishContents) :
          /\ Exchange(r, Translator_polish_translation(units[i], ApiFail).calls)
          /\ units' = [units EXCEPT ![i] = Translator_polish_translation(units[i], r).unit]
          /\ calls' = [calls EXCEPT ![i] = @ \o Translator_polish_translation(units[i], r).calls]
    /\ task' = [task EXCEPT ![i] = "done"]
    /\ UNCHANGED <<doc, pc, results, glossary, orchVars, dirVars, termVars, api, twin>>

\* ------------------------------------------ segmenter and pipeline on their own
\* _extract_translation_units applied to a document.
ExtractUnits ==
    /\ pc = "segment"
    /\ units' = extract_translation_units(doc)
    /\ task' = [i \in DOMAIN units' |-> "idle"]
    /\ calls' = [i \in DOMAIN units' |-> <<>>]
    /\ pc' = "segmented"
    /\ UNCHANGED <<doc, results, glossary, orchVars, dirVars, termVars, api, twin>>

\* translate_unit called on one of the units.
CallTranslateUnit(i) ==
    /\ pc = "segmented"
    /\ i \in DOMAIN units
    /\ task' = [task EXCEPT ![i] = "queued"]
    /\ pc' = "unit"
    /\ UNCHANGED <<doc, units, calls, results, glossary, orchVars, dirVars, termVars, api, twin>>

UnitInit ==
    /\ doc \in Docs(MaxLines)
    /\ units = <<>>
    /\ pc = "segment"
    /\ task = <<>>
    /\ calls = <<>>
    /\ results = <<>>
    /\ terminology \in {<<>>, OneTermGlossary}
    /\ new_terms = <<>>
    /\ terms_list = <<>>
    /\ saved = <<>>
    /\ save_log = ""
    /\ last_op = ""
    /\ events = <<>>
    /\ ui = 0
    /\ api = NoCall
    /\ twin = NoTwin
    /\ outFiles = <<>>
    /\ context = NewContext
    /\ result = NewResult
    /\ exc = ""
    /\ wi = 0
    /\ nFiles = 0
    /\ fileIdx = 0
    /\ success_count = 0
    /\ failed_files = <<>>
    /\ history = <<>>

UnitNext ==
    \/ ExtractUnits
    \/ \E i \in 1..(MaxLines + 1) : CallTranslateUnit(i)
    \/ \E i \in 1..(MaxLines + 1) : TranslateStep(i)
    \/ \E i \in 1..(MaxLines + 1) : ReviewStep(i)
    \/ \E i \in 1..(MaxLines + 1) : PolishStep(i)

UnitSpec == UnitInit /\ [][UnitNext]_vars

\* ------------------------------------------------- segmenter, without fences
\* The documents that hold no fence marker.
SizeDocs == UNION {[1..m -> {"S", "M", "L", "X"}] : m \in 0..MaxSizeLines}

SizeInit ==
    /\ doc \in SizeDocs
    /\ units = <<>>
    /\ pc = "segment"
    /\ task = <<>>
    /\ calls = <<>>
    /\ results = <<>>
    /\ terminology = <<>>
    /\ new_terms = <<>>
    /\ terms_list = <<>>
    /\ saved = <<>>
    /\ save_log = ""
    /\ last_op = ""
    /\ events = <<>>
    /\ ui = 0
    /\ api = NoCall
    /\ twin = NoTwin
    /\ outFiles = <<>>
    /\ context = NewContext
    /\ result = NewResult
    /\ exc = ""
    /\ wi = 0
    /\ nFiles = 0
    /\ fileIdx = 0
    /\ success_count = 0
    /\ failed_files = <<>>
    /\ history = <<>>

SizeNext == ExtractUnits

SizeSpec == SizeInit /\ [][SizeNext]_vars

\* ------------------------------------------------- the unit tasks, run twice
\* Two runs of the tasks of _process_translation_units over unit lists that
\* agree on unit i.  The first run is in units and task; when its tasks are
\* done the second one runs in twin.units and twin.task.  twin.resp keeps
\* what the model service did for unit i in the first run, stage by stage,
\* and the service does the same in the second run; for the other units it
\* does what it likes.

\* every task working on the unit the loop was at last
unit_of_task_late_bound(us, j) == Len(us)

\* The unit process_unit works on in task j: the one submit was given with
\* the index, executor.submit(process_unit, i, unit).
unit_of_task(us, j) == j

\* What the service may do at the stage a task is at.
StageOutcomes(stage, u) ==
    CASE stage = "queued" -> ApiOutcomes(TranslateContents(u.original_text))
      [] stage = "translated" -> ApiOutcomes(ReviewContents)
      [] OTHER -> ApiOutcomes(PolishContents)

\* For the units that are not compared: the call fails or gives a text.
FewStageOutcomes(stage, u) ==
    CASE stage = "queued" -> ApiOutcomes({Gen("zh")})
      [] stage = "translated" -> ApiOutcomes({Gen("sug")})
      [] OTHER -> ApiOutcomes({Gen("pol")})

\* The stage of translate_unit that a task at this stage runs next.
StageOf(stage, u, gloss, r) ==
    CASE stage = "queued" -> Translator_translate_text(u, gloss, r)
      [] stage = "translated" -> [unit |-> Translator_review_translation(u, r).unit, calls |-> Translator_review_translation(u, r).calls, terminology |-> gloss]
      [] OTHER -> [unit |-> Translator_polish_translation(u, r).unit, calls |-> Translator_polish_translation(u, r).calls, terminology |-> gloss]

StageAfter(stage, u) ==
    CASE stage = "queued" -> (IF is_code_block(u) THEN "done" ELSE "translated")
      [] stage = "translated" -> "reviewed"
      [] OTHER -> "done"

\* One step of task j on the unit list us, the tasks being at the stages ts.
task_step(us, ts, j, gloss, r) ==
    LET k == unit_of_task(us, j)
    IN [units |-> [us EXCEPT ![k] = StageOf(ts[j], us[k], gloss, r).unit],
        task |-> [ts EXCEPT ![j] = StageAfter(ts[j], us[k])]]

\* How many stages a task at this stage has run.
StagesRun(stage) == CASE stage = "queued" -> 0 [] stage = "translated" -> 1 [] stage = "reviewed" -> 2 [] OTHER -> 3

\* A step of a task of the first run.
FirstRunStep(j) ==
    /\ pc = "twin_a"
    /\ j \in DOMAIN task
    /\ task[j] # "done"
    /\ \E r \in (IF j = twin.i THEN StageOutcomes(task[j], units[unit_of_task(units, j)]) ELSE FewStageOutcomes(task[j], units[unit_of_task(units, j)])) :
          /\ Exchange(r, StageOf(task[j], units[unit_of_task(units, j)], terminology, ApiFail).calls)
          /\ units' = task_step(units, task, j, terminology, r).units
          /\ task' = task_step(units, task, j, terminology, r).task
          /\ twin' = IF j = twin.i THEN [twin EXCEPT !.resp = Append(@, r)] ELSE twin
    /\ UNCHANGED <<doc, pc, calls, results, glossary, orchVars, dirVars, termVars, api>>

\* The first run is over: every task of it has returned.
SecondRunBegin ==
    /\ pc = "twin_a"
    /\ \A j \in DOMAIN task : task[j] = "done"
    /\ pc' = "twin_b"
    /\ UNCHANGED <<doc, units, task, calls, results, glossary, orchVars, dirVars, termVars, api, twin>>

\* What the service does for task j of the second run.
SecondRunOutcomes(j) ==
    IF j = twin.i
    THEN {IF StagesRun(twin.task[j]) + 1 \in DOMAIN twin.resp THEN twin.resp[StagesRun(twin.task[j]) + 1] ELSE ApiFail}
    ELSE FewStageOutcomes(twin.task[j], twin.units[unit_of_task(twin.units, j)])

\* A step of a task of the second run.
SecondRunStep(j) ==
    /\ pc = "twin_b"
    /\ j \in DOMAIN twin.task
    /\ twin.task[j] # "done"
    /\ \E r \in SecondRunOutcomes(j) :
          /\ j # twin.i => Exchange(r, StageOf(twin.task[j], twin.units[unit_of_task(twin.units, j)], terminology, ApiFail).calls)
          /\ twin' = [twin EXCEPT !.units = task_step(twin.units, twin.task, j, terminology, r).units,
                                  !.task = task_step(twin.units, twin.task, j, terminology, r).task]
    /\ UNCHANGED <<doc, units, pc, task, calls, results, glossary, orchVars, dirVars, termVars, api>>

\* The texts a unit of the second list may have in place of the one of the
\* first list: a line of code, a long line of prose.
OtherTexts == {[k |-> "str", ls |-> <<[c |-> "F", p |-> 1, nl |-> TRUE]>>], [k |-> "str", ls |-> <<[c |-> "X", p |-> 1, nl |-> TRUE]>>]}

\* The unit lists that agree with us on the text of unit i.
TwinLists(us, i) == {vs \in [DOMAIN us -> {NewUnit} \cup {[NewUnit EXCEPT !.original_text = t] : t \in OtherTexts \cup {us[j].original_text : j \in DOMAIN us}}] :
                        /\ vs[i].original_text = us[i].original_text
                        /\ \A j \in DOMAIN us : vs[j] = [NewUnit EXCEPT !.original_text = vs[j].original_text]}

\* Both lists have been submitted.
TwinInit ==
    /\ doc \in Docs(MaxTwinLines)
    /\ units = extract_translation_units(doc)
    /\ Len(units) \in 1..MaxTwinUnits
    /\ task = [j \in DOMAIN units |-> "queued"]
    /\ calls = [j \in DOMAIN units |-> <<>>]
    /\ \E i \in DOMAIN units : \E vs \in TwinLists(units, i) :
          twin = [i |-> i, units |-> vs, task |-> [j \in DOMAIN units |-> "queued"], resp |-> <<>>]
    /\ pc = "twin_a"
    /\ terminology = OneTermGlossary
    /\ results = <<>>
    /\ new_terms = <<>>
    /\ terms_list = <<>>
    /\ saved = <<>>
    /\ save_log = ""
    /\ last_op = ""
    /\ events = <<>>
    /\ ui = 0
    /\ api = NoCall
    /\ outFiles = <<>>
    /\ context = NewContext
    /\ result = NewResult
    /\ exc = ""
    /\ wi = 0
    /\ nFiles = 0
    /\ fileIdx = 0
    /\ success_count = 0
    /\ failed_files = <<>>
    /\ history = <<>>

TwinNext ==
    \/ \E j \in 1..MaxTwinUnits : FirstRunStep(j)
    \/ SecondRunBegin
    \/ \E j \in 1..MaxTwinUnits : SecondRunStep(j)

TwinSpec == TwinInit /\ [][TwinNext]_vars

\* ------------------------------------------------------------ orchestrator
\* The exceptions raised inside translate_file: by open() on the input, by
\* os.makedirs and open() on the output, by a unit task, by results[i] and by
\* None + "\n\n".
ExceptionKinds == {"FileNotFoundError", "PermissionError", "OSError", "TranslatorError", "KeyError", "TypeError"}

\* str(e)
ErrorMessage(e) == CASE e = "FileNotFoundError" -> "[Errno 2] No such file or directory"
                     [] e = "PermissionError" -> "[Errno 13] Permission denied"
                     [] e = "OSError" -> "[Errno 28] No space left on device"
                     [] e = "TranslatorError" -> "translate_unit failed"
                     [] e = "KeyError" -> "1"
                     [] e = "TypeError" -> "unsupported operand type(s) for +: 'NoneType' and 'str'"
                     [] OTHER -> ""

\* a handler that catches the errors of the operating system only
CaughtOSErrorOnly(e) == e \in {"FileNotFoundError", "PermissionError", "OSError"}

\* except Exception as e
CaughtException(e) == e \in ExceptionKinds

\* The except branch of translate_file.
failed_result(r, e) == [r EXCEPT !.success = FALSE, !.error_message = ErrorMessage(e)]

\* results.values() in insertion order, which is the order of completion
ResultByInsertion(res, i) == res[i][2]

\* results[i]
ResultAt(res, i) == Lookup(res, i)

\* a block closed by one newline only
Block_single_newline(content) == <<content, "\n">>

\* content + "\n\n"
Block(content) == <<content, "\n\n">>

NoFile == [exists |-> FALSE, blocks |-> <<>>]
\* an output file left by an earlier run
StaleFile == [exists |-> TRUE, blocks |-> <<Block(Gen("old"))>>]

\* the write loop moved into the collection loop
WriteWhileCollecting == pc \in {"collect", "write"}

\* The write loop runs after the with-block of the executor.
WritePhase == pc = "write"

\* as_completed has yielded every future.
AllYielded == \A i \in DOMAIN task : HasKey(results, i)

\* an exit that waits until every task has handed over a result
PoolDrained_results_only == \A i \in DOMAIN task : HasKey(results, i)

\* shutdown(wait=False)
PoolDrained_no_wait == TRUE

\* ThreadPoolExecutor.__exit__: shutdown(wait=True)
PoolDrained == \A i \in DOMAIN task : Finished(i)

\* The head of an iteration of _translate_markdown_files and of translate_file.
TranslateFileBegin ==
    /\ pc = "dir_loop"
    /\ fileIdx < nFiles
    /\ fileIdx' = fileIdx + 1
    /\ result' = NewResult
    /\ exc' = ""
    /\ context' = [context EXCEPT !.current_file = fileIdx + 1]
    /\ doc' = <<>>
    /\ units' = <<>>
    /\ task' = <<>>
    /\ calls' = <<>>
    /\ results' = <<>>
    /\ wi' = 0
    /\ pc' = "read"
    /\ UNCHANGED <<glossary, outFiles, nFiles, success_count, failed_files, history, termVars, api, twin>>

\* _read_markdown_file, on a file that cannot be read or that holds one of
\* the documents ds
ReadFileFrom(ds) ==
    /\ pc = "read"
    /\ \E r \in {[ok |-> FALSE, d |-> <<>>]} \cup {[ok |-> TRUE, d |-> d] : d \in ds} :
          IF r.ok
          THEN doc' = r.d /\ pc' = "extract" /\ exc' = exc
          ELSE doc' = doc /\ pc' = "except" /\ exc' = "FileNotFoundError"
    /\ UNCHANGED <<units, task, calls, results, glossary, outFiles, context, result, wi, dirVars, termVars, api, twin>>

\* _extract_translation_units and update_progress(total=...)
ExtractFileUnits ==
    /\ pc = "extract"
    /\ units' = extract_translation_units(doc)
    /\ task' = [i \in DOMAIN units' |-> "idle"]
    /\ calls' = [i \in DOMAIN units' |-> <<>>]
    /\ context' = [context EXCEPT !.total_units = Len(units')]
    /\ pc' = "out_path"
    /\ UNCHANGED <<doc, results, glossary, outFiles, result, exc, wi, dirVars, termVars, api, twin>>

\* _get_output_path, whose os.makedirs may fail
GetOutputPath ==
    /\ pc = "out_path"
    /\ \E ok \in BOOLEAN :
          IF ok
          THEN result' = [result EXCEPT !.output_file = fileIdx] /\ pc' = "init_output" /\ exc' = exc
          ELSE result' = result /\ pc' = "except" /\ exc' = "PermissionError"
    /\ UNCHANGED <<doc, units, task, calls, results, glossary, outFiles, context, wi, dirVars, termVars, api, twin>>

\* a step that leaves the output file as it finds it
InitializeOutputFile_left_out ==
    /\ pc = "init_output"
    /\ pc' = "submit"
    /\ UNCHANGED <<doc, units, task, calls, results, glossary, outFiles, context, result, exc, wi, dirVars, termVars, api, twin>>

\* _initialize_output_file
InitializeOutputFile ==
    /\ pc = "init_output"
    /\ \E ok \in BOOLEAN :
          IF ok
          THEN outFiles' = [outFiles EXCEPT ![fileIdx] = [exists |-> TRUE, blocks |-> <<>>]] /\ pc' = "submit" /\ exc' = exc
          ELSE outFiles' = outFiles /\ pc' = "except" /\ exc' = "PermissionError"
    /\ UNCHANGED <<doc, units, task, calls, results, glossary, context, result, wi, dirVars, termVars, api, twin>>

\* executor.submit for every unit
Submit ==
    /\ pc = "submit"
    /\ task' = [i \in DOMAIN units |-> "queued"]
    /\ results' = <<>>
    /\ wi' = 1
    /\ pc' = "collect"
    /\ UNCHANGED <<doc, units, calls, glossary, outFiles, context, result, exc, dirVars, termVars, api, twin>>

\* process_unit when the translator it was given raises
TaskRaise(i) ==
    /\ i \in DOMAIN task
    /\ task[i] = "queued"
    /\ task' = [task EXCEPT ![i] = "raised"]
    /\ UNCHANGED <<doc, units, pc, calls, results, glossary, orchVars, dirVars, termVars, api, twin>>

\* One iteration of the loop over as_completed: future.result() and the
\* bookkeeping after it.
Collect(i) ==
    /\ pc = "collect"
    /\ i \in DOMAIN task
    /\ Finished(i)
    /\ ~HasKey(results, i)
    /\ IF task[i] = "raised"
       THEN /\ exc' = "TranslatorError"
            /\ pc' = "shutdown"
            /\ UNCHANGED <<results, context>>
       ELSE /\ results' = Append(results, <<i, units[i].polished_translation>>)
            /\ context' = [context EXCEPT !.current_unit_index = i - 1]
            /\ UNCHANGED <<exc, pc>>
    /\ UNCHANGED <<doc, units, task, calls, glossary, outFiles, result, wi, dirVars, termVars, api, twin>>

\* The end of the loop and of the with-block.
PoolExit ==
    /\ pc = "collect"
    /\ AllYielded
    /\ PoolDrained
    /\ pc' = "write"
    /\ UNCHANGED <<doc, units, task, calls, results, glossary, orchVars, dirVars, termVars, api, twin>>

\* The with-block left by an exception: the pool is drained, then the
\* exception goes on.
PoolExitOnError ==
    /\ pc = "shutdown"
    /\ PoolDrained
    /\ pc' = "except"
    /\ UNCHANGED <<doc, units, task, calls, results, glossary, orchVars, dirVars, termVars, api, twin>>

\* One iteration of the write loop: _append_to_output_file(results[i]).
WriteNext ==
    /\ WritePhase
    /\ wi <= Len(units)
    /\ IF ~HasKey(results, wi)
       THEN exc' = "KeyError" /\ pc' = "except" /\ UNCHANGED <<outFiles, wi>>
       ELSE IF ResultAt(results, wi) = None
            THEN exc' = "TypeError" /\ pc' = "except" /\ UNCHANGED <<outFiles, wi>>
            ELSE \E ok \in BOOLEAN :
                 IF ok
                 THEN /\ outFiles' = [outFiles EXCEPT ![fileIdx].exists = TRUE, ![fileIdx].blocks = Append(@, Block(ResultAt(results, wi)))]
                      /\ wi' = wi + 1
                      /\ UNCHANGED <<exc, pc>>
                 ELSE exc' = "OSError" /\ pc' = "except" /\ UNCHANGED <<outFiles, wi>>
    /\ UNCHANGED <<doc, units, task, calls, results, glossary, context, result, dirVars, termVars, api, twin>>

\* context.clear() and the return of the result
FileSucceed ==
    /\ pc = "write"
    /\ wi > Len(units)
    /\ context' = NewContext
    /\ pc' = "returned"
    /\ UNCHANGED <<doc, units, task, calls, results, glossary, outFiles, result, exc, wi, dirVars, termVars, api, twin>>

\* The except branch of translate_file; an exception it does not catch
\* goes on to the caller.
HandleException ==
    /\ pc = "except"
    /\ IF CaughtException(exc)
       THEN result' = failed_result(result, exc) /\ pc' = "returned"
       ELSE result' = result /\ pc' = "propagated"
    /\ UNCHANGED <<doc, units, task, calls, results, glossary, outFiles, context, exc, wi, dirVars, termVars, api, twin>>

\* success_count after a file
success_count_after(n, r) == IF r.success THEN n + 1 ELSE n

\* a loop that logs the failure of a file and does not list it
failed_files_not_listed(ff, f, r) == ff

\* failed_files after a file
failed_files_after(ff, f, r) == IF r.success THEN ff ELSE Append(ff, <<f, r.error_message>>)

\* The rest of an iteration of _translate_markdown_files.
RecordFile ==
    /\ pc \in {"returned", "propagated"}
    /\ IF pc = "returned"
       THEN /\ success_count' = success_count_after(success_count, result)
            /\ failed_files' = failed_files_after(failed_files, fileIdx, result)
       ELSE /\ success_count' = success_count
            /\ failed_files' = Append(failed_files, <<fileIdx, ErrorMessage(exc)>>)
    /\ history' = [history EXCEPT ![fileIdx] = Append(@, exc)]
    /\ pc' = "dir_loop"
    /\ UNCHANGED <<doc, units, task, calls, results, glossary, orchVars, nFiles, fileIdx, termVars, api, twin>>

\* The return of _translate_markdown_files and of translate_directory.
DirectoryReturn ==
    /\ pc = "dir_loop"
    /\ fileIdx = nFiles
    /\ pc' = "dir_done"
    /\ UNCHANGED <<doc, units, task, calls, results, glossary, orchVars, dirVars, termVars, api, twin>>

ReadFile == ReadFileFrom(Docs(MaxFileLines))

ReadBatchFile == ReadFileFrom(Docs(MaxDirLines))

\* translate_directory is called on a directory of one of the numbers ns of
\* Markdown files.
InitWith(ns, glossaries) ==
    /\ nFiles \in ns
    /\ outFiles \in [1..nFiles -> {NoFile, StaleFile}]
    /\ history = [f \in 1..nFiles |-> <<>>]
    /\ fileIdx = 0
    /\ success_count = 0
    /\ failed_files = <<>>
    /\ pc = "dir_loop"
    /\ doc = <<>>
    /\ units = <<>>
    /\ task = <<>>
    /\ calls = <<>>
    /\ results = <<>>
    /\ terminology \in glossaries
    /\ new_terms = <<>>
    /\ terms_list = <<>>
    /\ saved = <<>>
    /\ save_log = ""
    /\ last_op = ""
    /\ events = <<>>
    /\ ui = 0
    /\ api = NoCall
    /\ twin = NoTwin
    /\ context = NewContext
    /\ result = NewResult
    /\ exc = ""
    /\ wi = 0

\* The steps of translate_directory but the read.
Run ==
    \/ TranslateFileBegin
    \/ ExtractFileUnits
    \/ GetOutputPath
    \/ InitializeOutputFile
    \/ Submit
    \/ \E i \in 1..(MaxFileLines + 1) : TranslateStep(i)
    \/ \E i \in 1..(MaxFileLines + 1) : ReviewStep(i)
    \/ \E i \in 1..(MaxFileLines + 1) : PolishStep(i)
    \/ \E i \in 1..(MaxFileLines + 1) : TaskRaise(i)
    \/ \E i \in 1..(MaxFileLines + 1) : Collect(i)
    \/ PoolExit
    \/ PoolExitOnError
    \/ WriteNext
    \/ FileSucceed
    \/ HandleException
    \/ RecordFile
    \/ DirectoryReturn

\* One file, of up to MaxFileLines lines.
Init == InitWith({1}, {OneTermGlossary})

Next == ReadFile \/ Run

Spec == Init /\ [][Next]_vars

\* A directory of up to MaxFiles files, of up to MaxDirLines lines each.
DirInit == InitWith(0..MaxFiles, {OneTermGlossary})

DirNext == ReadBatchFile \/ Run

DirSpec == DirInit /\ [][DirNext]_vars

\* -------------------------------------------------- translate_file, scheduled
\* The thread of a unit task: the stages of translate_unit, or its failure.
UnitTask(i) == TranslateStep(i) \/ ReviewStep(i) \/ PolishStep(i) \/ TaskRaise(i)

\* The orchestrating thread.
Orchestrator ==
    \/ ReadBatchFile
    \/ TranslateFileBegin
    \/ ExtractFileUnits
    \/ GetOutputPath
    \/ InitializeOutputFile
    \/ Submit
    \/ \E i \in 1..(MaxFileLines + 1) : Collect(i)
    \/ PoolExit
    \/ PoolExitOnError
    \/ WriteNext
    \/ FileSucceed
    \/ HandleException
    \/ RecordFile
    \/ DirectoryReturn

\* One file of up to MaxDirLines lines; every thread that can take a step
\* takes one in the end: the orchestrating thread, and each unit task, whose
\* model service calls return or fail.
FairSpec == Init /\ [][DirNext]_vars /\ WF_vars(Orchestrator) /\ \A i \in 1..(MaxFileLines + 1) : WF_vars(UnitTask(i))

\* --------------------------------------------------------- glossary merge
\* A value that is no str: a NaN cell of the CSV file, or a field of a term
\* that holds something else than a string.
NotStr == <<"nan">>

\* The strings, of characters and blanks, that cells and term fields hold.
TermStrings == {<<"a">>, <<"A">>, <<" ", "a">>, <<"a", "a">>, <<" ">>}
TargetStrings == {<<"x">>, <<"y">>, <<" ">>}

\* d[key] = value on a dict in insertion order
DictSet(d, key, value) == IF HasKey(d, key) THEN [i \in DOMAIN d |-> IF d[i][1] = key THEN <<key, value>> ELSE d[i]] ELSE Append(d, <<key, value>>)

RECURSIVE LoadRows(_, _)
LoadRows(rows, d) == IF rows = <<>> THEN d ELSE LoadRows(Tail(rows), DictSet(d, Lower(Head(rows).english), Head(rows).chinese))

\* The CSV files: absent (no rows, as an empty one), or rows of two cells; an
\* empty cell is read as NaN.
CsvRows == [english : TermStrings \cup {NotStr}, chinese : {<<"x">>, <<"y">>, <<" ">>, NotStr}]
CsvFiles == UNION {[1..n -> CsvRows] : n \in 0..MaxRows}

\* a load that keeps the casing of the english column
load_terminology_as_read(rows) == [i \in DOMAIN rows |-> <<rows[i].english, rows[i].chinese>>]

\* TerminologyManager._load_terminology: eng.lower() raises on a NaN cell and
\* the glossary stays empty.
load_terminology(rows) == IF \E i \in DOMAIN rows : rows[i].english = NotStr THEN <<>> ELSE LoadRows(rows, <<>>)

\* The entries of the list api_client.extract_terms returns: a dict with both
\* fields, a dict that lacks one, or no dict.
TermEntries == [shape : {"dict"}, english : TermStrings \cup {<<>>, NotStr}, chinese : TargetStrings \cup {<<>>, NotStr}]
                   \cup {[shape |-> sh, english |-> <<>>, chinese |-> <<>>] : sh \in {"not_dict", "missing_field"}}

\* The entries that longer lists are made of: one term in two casings, with
\* its targets.
RepeatEntries == [shape : {"dict"}, english : {<<"a">>, <<"A">>}, chinese : {<<>>, <<"x">>, <<"y">>}]

\* terms_list: every list of at most one entry, and the longer lists that
\* repeat a term.
TermLists == UNION {[1..n -> TermEntries] : n \in 0..1} \cup UNION {[1..n -> RepeatEntries] : n \in 2..MaxTerms}

\* v.strip() if isinstance(v, str) else ""
StrippedField(v) == IF v = NotStr THEN <<>> ELSE Strip(v)

\* The target of a parsed pair: the one the glossary holds for the key, when
\* it holds a non-empty one, else the extracted one.
target_for(gloss, key, extracted) == IF HasKey(gloss, key) /\ Lookup(gloss, key) # <<>> THEN Lookup(gloss, key) ELSE extracted

\* an update that stores the extracted target under the key, present or not
merge_overwriting(gloss, key, extracted) == DictSet(gloss, key, extracted)

\* an update that also gives a target to a key stored with an empty one
merge_term_filling_empty(gloss, key, extracted) ==
    IF key # <<>> /\ (~HasKey(gloss, key) \/ Lookup(gloss, key) = <<>>) THEN DictSet(gloss, key, extracted) ELSE gloss

\* The update of the glossary for one parsed pair: the key is inserted, with
\* its target, when it is not in the glossary.
merge_term(gloss, key, extracted) == IF key # <<>> /\ ~HasKey(gloss, key) THEN Append(gloss, <<key, target_for(gloss, key, extracted)>>) ELSE gloss

\* a result list that also reports the terms the glossary already held
new_terms_reporting_known(new, inserted, english, chinese) == IF chinese # <<>> THEN Append(new, <<english, chinese>>) ELSE new

\* new_terms after one parsed pair: the pair is appended, in its original
\* casing, when it was inserted and has a target.
new_terms_after(new, inserted, english, chinese) == IF inserted /\ chinese # <<>> THEN Append(new, <<english, chinese>>) ELSE new

\* The loop of extract_terms over terms_list.
RECURSIVE MergeTerms(_, _, _)
MergeTerms(terms, gloss, new) ==
    IF terms = <<>> THEN [terminology |-> gloss, new_terms |-> new]
    ELSE LET term == Head(terms)
             english == StrippedField(term.english)
             english_lower == Lower(english)
             chinese == target_for(gloss, english_lower, StrippedField(term.chinese))
             inserted == english_lower # <<>> /\ ~HasKey(gloss, english_lower)
         IN IF term.shape # "dict" \/ english = <<>>
            THEN MergeTerms(Tail(terms), gloss, new)
            ELSE MergeTerms(Tail(terms), merge_term(gloss, english_lower, StrippedField(term.chinese)),
                            new_terms_after(new, inserted, english, chinese))

\* ApiClient.extract_terms: the parsed terms, [] when the call failed.
api_extract_terms(r) == IF r.ok THEN r.terms ELSE <<>>

\* TerminologyManager.extract_terms on a text of n characters, r being what
\* api_client.extract_terms does: it fails, returning [], or returns terms.
extract_terms(gloss, n, r) ==
    IF n < min_extract_length THEN [terminology |-> gloss, new_terms |-> <<>>]
    ELSE MergeTerms(api_extract_terms(r), gloss, <<>>)

ExtractOutcomes == {[ok |-> FALSE, terms |-> <<>>]} \cup {[ok |-> TRUE, terms |-> ts] : ts \in TermLists}

\* The outcomes with at most one term, of the kind that repeats.
FewOutcomes == {[ok |-> FALSE, terms |-> <<>>]} \cup {[ok |-> TRUE, terms |-> ts] : ts \in UNION {[1..n -> RepeatEntries] : n \in 0..1}}

\* A call of extract_terms whose api_client.extract_terms does one of rs.
ExtractTermsFrom(rs) ==
    /\ pc = "glossary"
    /\ \E n \in {min_extract_length - 1, min_extract_length} : \E r \in rs :
          /\ terminology' = extract_terms(terminology, n, r).terminology
          /\ new_terms' = extract_terms(terminology, n, r).new_terms
          /\ terms_list' = IF n < min_extract_length THEN <<>> ELSE api_extract_terms(r)
    /\ last_op' = "extract_terms"
    /\ UNCHANGED <<doc, units, pc, task, calls, results, orchVars, dirVars, saved, save_log, events, ui, api, twin>>

\* ord(ch)
CharCode(ch) == CASE ch = " " -> 32 [] ch = "A" -> 65 [] ch = "a" -> 97 [] OTHER -> 120

\* s < t on str
RECURSIVE StrLess(_, _)
StrLess(s, t) ==
    IF t = <<>> THEN FALSE
    ELSE IF s = <<>> THEN TRUE
    ELSE IF Head(s) = Head(t) THEN StrLess(Tail(s), Tail(t))
    ELSE CharCode(Head(s)) < CharCode(Head(t))

\* {k: v for k, v in self.terminology.items() if v and v.strip()}, for
\* targets that are all str
ValidTerms(gloss) == SelectSeq(gloss, LAMBDA e : e[2] # <<>> /\ Strip(e[2]) # <<>>)

\* sorted(valid_terms.items(), key=lambda x: x[0])
RECURSIVE SortedByKey(_)
SortedByKey(d) ==
    IF d = <<>> THEN <<>>
    ELSE LET m == CHOOSE i \in DOMAIN d : \A j \in DOMAIN d : ~StrLess(d[j][1], d[i][1])
         IN <<d[m]>> \o SortedByKey(SubSeq(d, 1, m - 1) \o SubSeq(d, m + 1, Len(d)))

\* The rows df.to_csv writes.
RowsOf(d) == [i \in DOMAIN d |-> [english |-> d[i][1], chinese |-> d[i][2]]]

\* TerminologyManager.save_terminology on the glossary file: v.strip()
\* raises on a target that is no str, os.makedirs or to_csv fail when
\* os_ok is FALSE; either error is caught and logged, and the file is left
\* as it was.
save_terminology(gloss, file, os_ok) ==
    IF \E i \in DOMAIN gloss : gloss[i][2] = NotStr THEN [saved |-> file, log |-> "AttributeError"]
    ELSE IF ~os_ok THEN [saved |-> file, log |-> "OSError"]
    ELSE [saved |-> RowsOf(SortedByKey(ValidTerms(gloss))), log |-> ""]

SaveTerminology ==
    /\ pc = "glossary"
    /\ \E os_ok \in BOOLEAN :
          /\ saved' = save_terminology(terminology, saved, os_ok).saved
          /\ save_log' = save_terminology(terminology, saved, os_ok).log
    /\ last_op' = "save_terminology"
    /\ UNCHANGED <<doc, units, pc, task, calls, results, glossary, orchVars, dirVars, events, ui, api, twin>>

\* A TerminologyManager constructed on a glossary file.
GlossInit ==
    /\ \E rows \in CsvFiles : terminology = load_terminology(rows) /\ saved = rows
    /\ new_terms = <<>>
    /\ terms_list = <<>>
    /\ save_log = ""
    /\ last_op = ""
    /\ events = <<>>
    /\ ui = 0
    /\ api = NoCall
    /\ twin = NoTwin
    /\ pc = "glossary"
    /\ doc = <<>>
    /\ units = <<>>
    /\ task = <<>>
    /\ calls = <<>>
    /\ results = <<>>
    /\ outFiles = <<>>
    /\ context = NewContext
    /\ result = NewResult
    /\ exc = ""
    /\ wi = 0
    /\ nFiles = 0
    /\ fileIdx = 0
    /\ success_count = 0
    /\ failed_files = <<>>
    /\ history = <<>>

ExtractTerms == ExtractTermsFrom(ExtractOutcomes)

GlossNext == ExtractTerms

GlossSpec == GlossInit /\ [][GlossNext]_vars

\* Extractions and saves on one TerminologyManager.
ExtractFewTerms == ExtractTermsFrom(FewOutcomes)

SaveNext == ExtractFewTerms \/ SaveTerminology

SaveSpec == GlossInit /\ [][SaveNext]_vars

\* ------------------------------------------------------ glossary lookup
\* The glossaries looked up: at most MaxGlossary entries under different
\* lower-case keys, with a target, an empty target or a NaN target.
LookupKeys == {<<"a">>, <<"a", "a">>, <<"a", "s">>}

LookupEntries == {<<k, v>> : k \in LookupKeys, v \in {<<"x">>, <<>>, NotStr}}

LookupGlossaries == {g \in UNION {[1..n -> LookupEntries] : n \in 0..MaxGlossary} : \A i, j \in DOMAIN g : i # j => g[i][1] # g[j][1]}

\* The texts looked up: None, "", and lines of words.
TextOfLines(ks) == [k |-> "str", ls |-> [i \in DOMAIN ks |-> [c |-> ks[i], p |-> i, nl |-> TRUE]]]

LookupTexts == {None, EmptyStr} \cup {TextOfLines(ks) : ks \in UNION {[1..n -> {"S", "P"}] : n \in 1..MaxLookupLines}}

\* unit.technical_terms = self.terminology_manager.find_relevant_terms(unit.original_text)
FindRelevantTerms ==
    /\ pc = "find"
    /\ units' = [units EXCEPT ![1].technical_terms = find_relevant_terms(terminology, units[1].original_text)]
    /\ pc' = "found"
    /\ UNCHANGED <<doc, task, calls, results, glossary, orchVars, dirVars, termVars, api, twin>>

\* A TerminologyManager and a text.
FindInit ==
    /\ terminology \in LookupGlossaries
    /\ \E t \in LookupTexts : units = <<[NewUnit EXCEPT !.original_text = t]>>
    /\ pc = "find"
    /\ new_terms = <<>>
    /\ terms_list = <<>>
    /\ saved = <<>>
    /\ save_log = ""
    /\ last_op = ""
    /\ events = <<>>
    /\ ui = 0
    /\ api = NoCall
    /\ twin = NoTwin
    /\ doc = <<>>
    /\ task = <<>>
    /\ calls = <<>>
    /\ results = <<>>
    /\ outFiles = <<>>
    /\ context = NewContext
    /\ result = NewResult
    /\ exc = ""
    /\ wi = 0
    /\ nFiles = 0
    /\ fileIdx = 0
    /\ success_count = 0
    /\ failed_files = <<>>
    /\ history = <<>>

FindNext == FindRelevantTerms

FindSpec == FindInit /\ [][FindNext]_vars

\* ------------------------------------------------------ the API client
\* The responses to the term extraction request, as their characters.
ResponseChars == {"a", ":", " ", "\n"}

Responses == UNION {[1..n -> ResponseChars] : n \in 0..MaxResponse}

\* \s, and [^\s:]
IsSpace(ch) == ch \in {" ", "\n"}

IsTermChar(ch) == ~IsSpace(ch) /\ ch # ":"

\* The end of the line that position p of t is on.
RECURSIVE LineEnd(_, _)
LineEnd(t, p) == IF p < Len(t) /\ t[p + 1] # "\n" THEN LineEnd(t, p + 1) ELSE p

\* [^\s:]+ from p, which holds such a character: where the longest run ends.
RECURSIVE RunEnd(_, _)
RunEnd(t, p) == IF p < Len(t) /\ IsTermChar(t[p + 1]) THEN RunEnd(t, p + 1) ELSE p

\* \s* from p: the first position from p on that holds no white space
\* (Len(t) + 1 when there is none).
RECURSIVE SkipSpace(_, _)
SkipSpace(t, p) == IF p <= Len(t) /\ IsSpace(t[p]) THEN SkipSpace(t, p + 1) ELSE p

\* \s*([^\n]+) right after the colon at c: the group starts at the last
\* position the white space can be followed to that holds no newline; 0 when
\* there is none.
GroupTwoStart(t, c) ==
    LET starts == {q \in (c + 1)..Len(t) : t[q] # "\n" /\ \A j \in (c + 1)..(q - 1) : IsSpace(t[j])}
    IN IF starts = {} THEN 0 ELSE CHOOSE q \in starts : \A q2 \in starts : q2 <= q

\* The first group may end at e, reached from the run that ends at r without
\* passing a newline, when the colon follows e after white space and the
\* second group can start after it.
GroupOneEnds(t, r) ==
    {e \in r..Len(t) : /\ \A j \in (r + 1)..e : t[j] # "\n"
                       /\ SkipSpace(t, e + 1) <= Len(t)
                       /\ t[SkipSpace(t, e + 1)] = ":"
                       /\ GroupTwoStart(t, SkipSpace(t, e + 1)) # 0}

\* The match of the pattern ([^\s:]+.*?)\s*:\s*([^\n]+) that starts at p:
\* the lazy .*? makes the first group end as early as it can.
MatchAt(t, p) ==
    LET ends == IF IsTermChar(t[p]) THEN GroupOneEnds(t, RunEnd(t, p)) ELSE {}
        e == CHOOSE e1 \in ends : \A e2 \in ends : e1 <= e2
        g == GroupTwoStart(t, SkipSpace(t, e + 1))
    IN IF ends = {} THEN [found |-> FALSE, english |-> <<>>, chinese |-> <<>>, last |-> 0]
       ELSE [found |-> TRUE, english |-> SubSeq(t, p, e), chinese |-> SubSeq(t, g, LineEnd(t, g)), last |-> LineEnd(t, g)]

\* re.findall(pattern, text) from position p on
RECURSIVE FindAll(_, _)
FindAll(t, p) ==
    IF p > Len(t) THEN <<>>
    ELSE IF MatchAt(t, p).found THEN <<MatchAt(t, p)>> \o FindAll(t, MatchAt(t, p).last + 1)
    ELSE FindAll(t, p + 1)

\* The list built from the matches: those with a non-blank english, both
\* groups stripped.
parsed(ms) ==
    LET kept == SelectSeq(ms, LAMBDA m : Strip(m.english) # <<>>)
    IN [i \in DOMAIN kept |-> [shape |-> "dict", english |-> Strip(kept[i].english), chinese |-> Strip(kept[i].chinese)]]

\* ApiClient._extract_terms on a response that is a str
parse_terms(text) == parsed(FindAll(text, 1))

\* What _call_api and _extract_terms come to for ApiClient.extract_terms:
\* the call fails, or re.findall raises on a response that is no str, or
\* the terms are parsed.
ParseOutcome(ok, content) ==
    IF ok /\ content # NotStr THEN [ok |-> TRUE, terms |-> parse_terms(content)] ELSE [ok |-> FALSE, terms |-> <<>>]

\* The arguments of the operations.
ApiOriginals == {EmptyStr, Gen("en")}
ApiTranslations == {EmptyStr, Gen("zh")}
ApiSuggestions == {Sentinel, Gen("sug")}

ApiTranslateText ==
    /\ pc = "api"
    /\ \E text \in ApiOriginals : \E r \in ApiOutcomes(TranslateContents(text)) :
           api' = [op |-> "translate_text", original |-> text, translation |-> NoArg, suggestions |-> NoArg,
                   ok |-> r.ok, content |-> r.content, ret |-> translate_text(text, r)]
    /\ UNCHANGED <<doc, units, pc, task, calls, results, glossary, orchVars, dirVars, termVars, twin>>

ApiReviewTranslation ==
    /\ pc = "api"
    /\ \E original \in ApiOriginals : \E translation \in ApiTranslations : \E r \in ApiOutcomes(ReviewContents) :
           api' = [op |-> "review_translation", original |-> original, translation |-> translation, suggestions |-> NoArg,
                   ok |-> r.ok, content |-> r.content, ret |-> review_translation(original, translation, r)]
    /\ UNCHANGED <<doc, units, pc, task, calls, results, glossary, orchVars, dirVars, termVars, twin>>

ApiPolishTranslation ==
    /\ pc = "api"
    /\ \E original \in ApiOriginals : \E translation \in ApiTranslations : \E suggestions \in ApiSuggestions :
           \E r \in ApiOutcomes(PolishContents) :
               api' = [op |-> "polish_translation", original |-> original, translation |-> translation, suggestions |-> suggestions,
                       ok |-> r.ok, content |-> r.content, ret |-> polish_translation(original, translation, suggestions, r)]
    /\ UNCHANGED <<doc, units, pc, task, calls, results, glossary, orchVars, dirVars, termVars, twin>>

ApiExtractTerms ==
    /\ pc = "api"
    /\ \E ok \in BOOLEAN : \E content \in Responses \cup {NotStr} :
           api' = [op |-> "extract_terms", original |-> NoArg, translation |-> NoArg, suggestions |-> NoArg,
                   ok |-> ok, content |-> content, ret |-> api_extract_terms(ParseOutcome(ok, content))]
    /\ UNCHANGED <<doc, units, pc, task, calls, results, glossary, orchVars, dirVars, termVars, twin>>

\* An ApiClient, and calls of its operations.
ApiInit ==
    /\ api = NoCall
    /\ twin = NoTwin
    /\ pc = "api"
    /\ terminology = <<>>
    /\ new_terms = <<>>
    /\ terms_list = <<>>
    /\ saved = <<>>
    /\ save_log = ""
    /\ last_op = ""
    /\ events = <<>>
    /\ ui = 0
    /\ doc = <<>>
    /\ units = <<>>
    /\ task = <<>>
    /\ calls = <<>>
    /\ results = <<>>
    /\ outFiles = <<>>
    /\ context = NewContext
    /\ result = NewResult
    /\ exc = ""
    /\ wi = 0
    /\ nFiles = 0
    /\ fileIdx = 0
    /\ success_count = 0
    /\ failed_files = <<>>
    /\ history = <<>>

ApiNext == ApiTranslateText \/ ApiReviewTranslation \/ ApiPolishTranslation \/ ApiExtractTerms

ApiSpec == ApiInit /\ [][ApiNext]_vars

\* ------------------------------------------------------ extraction mode
\* An entry of the log of calls: the file read with, per unit, whether it is
\* a code block; extract_terms and save_terminology for a unit of a file.
ReadEvent(f, us) == [op |-> "read", file |-> f, unit |-> 0, code |-> [i \in DOMAIN us |-> is_code_block(us[i])]]

CallEvent(name, f, u) == [op |-> name, file |-> f, unit |-> u, code |-> <<>>]

\* The head of an iteration of the loop over markdown_files.
TermFileBegin ==
    /\ pc = "term_loop"
    /\ fileIdx < nFiles
    /\ fileIdx' = fileIdx + 1
    /\ pc' = "term_read"
    /\ UNCHANGED <<doc, units, task, calls, results, glossary, orchVars, nFiles, success_count, failed_files, history, termVars, api, twin>>

\* a loop that a file that cannot be read brings to its end
TermReadFile_stopping ==
    /\ pc = "term_read"
    /\ \/ /\ doc' = <<>>
          /\ units' = <<>>
          /\ pc' = "term_done"
          /\ UNCHANGED <<events, ui>>
       \/ \E d \in Docs(MaxTermLines) :
             /\ doc' = d
             /\ units' = extract_translation_units(d)
             /\ events' = Append(events, ReadEvent(fileIdx, extract_translation_units(d)))
             /\ ui' = 1
             /\ pc' = "term_units"
    /\ UNCHANGED <<task, calls, results, glossary, orchVars, dirVars, saved, save_log, last_op, api, twin>>

\* _read_markdown_file and _extract_translation_units; a file that cannot
\* be read ends the iteration in the except branch.
TermReadFile ==
    /\ pc = "term_read"
    /\ \/ /\ doc' = <<>>
          /\ units' = <<>>
          /\ pc' = "term_loop"
          /\ UNCHANGED <<events, ui>>
       \/ \E d \in Docs(MaxTermLines) :
             /\ doc' = d
             /\ units' = extract_translation_units(d)
             /\ events' = Append(events, ReadEvent(fileIdx, extract_translation_units(d)))
             /\ ui' = 1
             /\ pc' = "term_units"
    /\ UNCHANGED <<task, calls, results, glossary, orchVars, dirVars, saved, save_log, last_op, api, twin>>

\* if is_code_block(unit): continue
TermSkipCode ==
    /\ pc = "term_units"
    /\ ui <= Len(units)
    /\ is_code_block(units[ui])
    /\ ui' = ui + 1
    /\ UNCHANGED <<doc, units, pc, task, calls, results, glossary, orchVars, dirVars, saved, save_log, last_op, events, api, twin>>

\* self.terminology_manager.extract_terms(unit.original_text)
TermExtract ==
    /\ pc = "term_units"
    /\ ui <= Len(units)
    /\ ~is_code_block(units[ui])
    /\ \E r \in FewOutcomes :
          /\ terminology' = extract_terms(terminology, TextLen(units[ui].original_text), r).terminology
          /\ new_terms' = extract_terms(terminology, TextLen(units[ui].original_text), r).new_terms
          /\ terms_list' = IF TextLen(units[ui].original_text) < min_extract_length THEN <<>> ELSE api_extract_terms(r)
    /\ last_op' = "extract_terms"
    /\ events' = Append(events, CallEvent("extract_terms", fileIdx, ui))
    /\ pc' = "term_save"
    /\ UNCHANGED <<doc, units, task, calls, results, orchVars, dirVars, saved, save_log, ui, api, twin>>

\* self.terminology_manager.save_terminology(), and on to the next unit
TermSave ==
    /\ pc = "term_save"
    /\ \E os_ok \in BOOLEAN :
          /\ saved' = save_terminology(terminology, saved, os_ok).saved
          /\ save_log' = save_terminology(terminology, saved, os_ok).log
    /\ last_op' = "save_terminology"
    /\ events' = Append(events, CallEvent("save_terminology", fileIdx, ui))
    /\ ui' = ui + 1
    /\ pc' = "term_units"
    /\ UNCHANGED <<doc, units, task, calls, results, glossary, orchVars, dirVars, api, twin>>

\* The loop over the units of a file is over.
TermFileEnd ==
    /\ pc = "term_units"
    /\ ui > Len(units)
    /\ pc' = "term_loop"
    /\ UNCHANGED <<doc, units, task, calls, results, glossary, orchVars, dirVars, termVars, api, twin>>

\* The loop over markdown_files is over.
TermReturn ==
    /\ pc = "term_loop"
    /\ fileIdx = nFiles
    /\ pc' = "term_done"
    /\ UNCHANGED <<doc, units, task, calls, results, glossary, orchVars, dirVars, termVars, api, twin>>

\* extract_terminology on a file, or on a directory of files, with a
\* TerminologyManager constructed on a glossary file.
TermInit ==
    /\ \E rows \in CsvFiles : terminology = load_terminology(rows) /\ saved = rows
    /\ new_terms = <<>>
    /\ terms_list = <<>>
    /\ save_log = ""
    /\ last_op = ""
    /\ events = <<>>
    /\ ui = 0
    /\ api = NoCall
    /\ twin = NoTwin
    /\ pc = "term_loop"
    /\ doc = <<>>
    /\ units = <<>>
    /\ task = <<>>
    /\ calls = <<>>
    /\ results = <<>>
    /\ outFiles = <<>>
    /\ context = NewContext
    /\ result = NewResult
    /\ exc = ""
    /\ wi = 0
    /\ nFiles \in 0..MaxFiles
    /\ fileIdx = 0
    /\ success_count = 0
    /\ failed_files = <<>>
    /\ history = <<>>

TermNext == TermFileBegin \/ TermReadFile \/ TermSkipCode \/ TermExtract \/ TermSave \/ TermFileEnd \/ TermReturn

TermSpec == TermInit /\ [][TermNext]_vars

\* ------------------------------------------------------- claims: the pipeline
GatewayOps == {"translate", "review", "polish"}

OpsOf(i) == [j \in DOMAIN calls[i] |-> calls[i][j].op]

CallsOf(i, op) == SelectSeq(calls[i], LAMBDA c : c.op = op)

\* The Gateway's translate operation failed for unit i.
TranslateFailed(i) == \E j \in DOMAIN calls[i] : calls[i][j].op = "translate" /\ ~calls[i][j].ok

\* original_text.find("```") >= 0, read off the text itself
HasFenceMarker(t) == \E j \in DOMAIN t.ls : t.ls[j].c = "F"

\* C3: when the Gateway's translate operation fails for a prose unit,
\* translate_unit goes on to return normally with translation and
\* polished_translation equal to original_text and empty suggestions, and it
\* calls neither Gateway review nor Gateway polish.
C3_TranslateFailureFallsBack ==
    \A i \in DOMAIN task : TranslateFailed(i) =>
        /\ task[i] \in {"translated", "reviewed", "done"}
        /\ units[i].translation = units[i].original_text
        /\ CallsOf(i, "review") = <<>> /\ CallsOf(i, "polish") = <<>>
        /\ task[i] \in {"reviewed", "done"} => units[i].suggestions = EmptyStr
        /\ task[i] = "done" => units[i].polished_translation = units[i].original_text

C3_Witness == \E i \in DOMAIN task : TranslateFailed(i) /\ task[i] = "done" /\ Truthy(units[i].original_text)

\* C4: a unit whose original_text contains a fence marker comes out of
\* translate_unit with translation and polished_translation equal to
\* original_text, after no Gateway call and no glossary lookup.
C4_CodeUnitPassthrough ==
    \A i \in DOMAIN task : HasFenceMarker(units[i].original_text) =>
        /\ calls[i] = <<>>
        /\ task[i] \in {"idle", "queued", "done"}
        /\ task[i] = "done" => /\ units[i].translation = units[i].original_text
                               /\ units[i].polished_translation = units[i].original_text

C4_Witness == \E i \in DOMAIN task : HasFenceMarker(units[i].original_text) /\ task[i] = "done" /\ Len(units[i].original_text.ls) > 1

\* ------------------------------------------------------ claims: the segmenter
FenceLines(d) == {i \in DOMAIN d : IsFenceLine(d[i])}

EvenFences(d) == Cardinality(FenceLines(d)) % 2 = 0

\* The number of fence lines among the first i lines.
FenceRank(d, i) == Cardinality({j \in FenceLines(d) : j <= i})

\* An opening fence line and its matching closing fence line.
CodeRegions(d) == {ab \in FenceLines(d) \X FenceLines(d) : FenceRank(d, ab[1]) % 2 = 1 /\ FenceRank(d, ab[2]) = FenceRank(d, ab[1]) + 1}

\* Line p lies between an opening fence line and its closing fence line.
InsideCode(d, p) == ~IsFenceLine(d[p]) /\ FenceRank(d, p) % 2 = 1

\* Line p is prose: outside every code region.
IsProse(d, p) == ~IsFenceLine(d[p]) /\ FenceRank(d, p) % 2 = 0

ProseRunStarts(d) == {p \in DOMAIN d : IsProse(d, p) /\ (p = 1 \/ ~IsProse(d, p - 1))}

RECURSIVE ProseRunLen(_, _)
ProseRunLen(d, p) == IF p > Len(d) \/ ~IsProse(d, p) THEN 0 ELSE LineLen(d[p]) + 1 + ProseRunLen(d, p + 1)

\* The positions in the document of the lines of a unit, in the unit's order.
UnitLines(u) == [j \in DOMAIN u.original_text.ls |-> u.original_text.ls[j].p]

\* C5: for input with an even number of fence lines, each code region is one
\* unit that runs from its opening fence line to its closing fence line with
\* the lines between them in order, whatever its size; and with no prose run
\* reaching the threshold there are as many units as code regions and
\* non-empty prose runs.
C5_FenceInvariant ==
    (pc # "segment" /\ EvenFences(doc)) =>
        /\ \A ab \in CodeRegions(doc) : \E i \in DOMAIN units : UnitLines(units[i]) = [j \in 1..(ab[2] - ab[1] + 1) |-> ab[1] + j - 1]
        /\ (\A p \in ProseRunStarts(doc) : ProseRunLen(doc, p) < min_unit_length) =>
               Len(units) = Cardinality(CodeRegions(doc)) + Cardinality(ProseRunStarts(doc))

\* C6: with properly paired fences, no line between an opening fence line
\* and its closing fence line is part of a text passed to Gateway translate,
\* review or polish.
C6_CodeNeverTranslated ==
    EvenFences(doc) =>
        \A i \in DOMAIN calls : \A j \in DOMAIN calls[i] : calls[i][j].op \in GatewayOps =>
            \A k \in DOMAIN calls[i][j].original.ls : ~InsideCode(doc, calls[i][j].original.ls[k].p)

\* --------------------------------------------------- claims: the orchestrator
InFile == fileIdx \in DOMAIN outFiles

\* The blocks of the output file of the file in hand.
OutBlocks == outFiles[fileIdx].blocks

\* Something went wrong in the processing of unit i: a Gateway call of its
\* failed, or its task raised.
UnitFailed(i) == task[i] = "raised" \/ \E j \in DOMAIN calls[i] : calls[i][j].op \in GatewayOps /\ ~calls[i][j].ok

\* C1: whatever the order in which the unit tasks complete, the i-th block
\* appended to the output file is the polished_translation of the i-th unit,
\* and a successful translate_file has appended a block for every unit.
C1_OutputInSegmentationOrder ==
    InFile =>
        /\ \A j \in DOMAIN OutBlocks : OutBlocks[j] # Block(Gen("old")) => j \in DOMAIN units /\ OutBlocks[j] = Block(units[j].polished_translation)
        /\ (pc = "returned" /\ result.success) => (Len(OutBlocks) = Len(units) /\ \A j \in DOMAIN OutBlocks : OutBlocks[j] # Block(Gen("old")))

C1_Witness ==
    /\ pc = "returned" /\ result.success
    /\ Len(units) >= 2 /\ Len(OutBlocks) = Len(units)
    /\ results[1][1] = 2
    /\ units[1].polished_translation # units[2].polished_translation

\* C2: when the processing of one unit fails, by a failing Gateway call or
\* by its task raising, translate_file still returns a successful result and
\* the output of every other unit is written.  (Failures of the file system
\* are left out of the statement.)
C2_UnitFailureDoesNotFailDocument ==
    (InFile /\ pc = "returned" /\ exc \in {"", "TranslatorError", "KeyError", "TypeError"}) =>
        \A i \in DOMAIN task : UnitFailed(i) =>
            /\ result.success
            /\ \A k \in DOMAIN units \ {i} : k \in DOMAIN OutBlocks /\ OutBlocks[k] = Block(units[k].polished_translation)

C9_BatchTally ==
    /\ \A f \in DOMAIN history : Len(history[f]) <= 1
    /\ pc = "dir_done" =>
          /\ \A f \in 1..nFiles : Len(history[f]) = 1
          /\ success_count + Len(failed_files) = nFiles
          /\ \A f \in 1..nFiles :
                Cardinality({k \in DOMAIN failed_files : failed_files[k][1] = f}) = (IF history[f][1] = "" THEN 0 ELSE 1)
          /\ \A k \in DOMAIN failed_files : failed_files[k][2] = ErrorMessage(history[failed_files[k][1]][1])

C9_Witness == pc = "dir_done" /\ nFiles = 2 /\ history[1][1] # "" /\ history[2][1] = "" /\ success_count = 1

\* ------------------------------------------------------ claims: the glossary
\* C10: an extract_terms call leaves every entry that has a non-empty target
\* in place with that target, whatever targets the extraction returns for its
\* term, in whatever casing.
C10_EstablishedTargetKept ==
    [][\A i \in DOMAIN terminology : terminology[i][2] # <<>> =>
          (HasKey(terminology', terminology[i][1]) /\ Lookup(terminology', terminology[i][1]) = terminology[i][2])]_vars

\* An extraction has just offered the target "y" for "A" to a glossary that
\* held "a" with the target "x", and a later entry besides.
C10_Witness ==
    /\ terms_list = <<[shape |-> "dict", english |-> <<"A">>, chinese |-> <<"y">>]>>
    /\ Len(terminology) = 2
    /\ terminology[1] = <<<<"a">>, <<"x">>>>

\* A parsed pair the loop of extract_terms does not skip, and its key.
ValidEntry(t) == t.shape = "dict" /\ StrippedField(t.english) # <<>>

KeyOf(t) == Lower(StrippedField(t.english))

\* C11: an extract_terms call that parsed one pair whose key the glossary did
\* not hold with a non-empty target (the key was absent, or present with an
\* empty target) leaves the glossary mapping the key to the extracted target.
C11_NewPairInserted ==
    [][(last_op' = "extract_terms" /\ Len(terms_list') = 1 /\ ValidEntry(terms_list'[1])
          /\ ~(HasKey(terminology, KeyOf(terms_list'[1])) /\ Lookup(terminology, KeyOf(terms_list'[1])) # <<>>)) =>
          (HasKey(terminology', KeyOf(terms_list'[1]))
             /\ Lookup(terminology', KeyOf(terms_list'[1])) = StrippedField(terms_list'[1].chinese))]_vars

\* The entries of a list that are the first valid ones of their key, for a
\* key the glossary gl does not hold, and that have a target.
NewlyInserted(gl, ts) ==
    {j \in DOMAIN ts : /\ ValidEntry(ts[j])
                       /\ ~HasKey(gl, KeyOf(ts[j]))
                       /\ \A i \in 1..(j - 1) : ~(ValidEntry(ts[i]) /\ KeyOf(ts[i]) = KeyOf(ts[j]))
                       /\ StrippedField(ts[j].chinese) # <<>>}

RECURSIVE PairsAt(_, _, _)
PairsAt(ts, js, j) ==
    IF j > Len(ts) THEN <<>>
    ELSE (IF j \in js THEN <<<<StrippedField(ts[j].english), StrippedField(ts[j].chinese)>>>> ELSE <<>>) \o PairsAt(ts, js, j + 1)

\* C12: extract_terms returns exactly the pairs it newly inserted with a
\* non-empty target, in the order of the response: no term the glossary held
\* before the call, no later repetition of a term, no term inserted with an
\* empty target.
C12_ReturnsNewlyInserted ==
    [][last_op' = "extract_terms" => new_terms' = PairsAt(terms_list', NewlyInserted(terminology, terms_list'), 1)]_vars

\* A call on a glossary that held " a" got "A" with the target "x" and then
\* "a" with the target "y": it returned the first pair only.
C12_Witness ==
    /\ Len(terms_list) = 2
    /\ terms_list[1].english = <<"A">> /\ terms_list[1].chinese = <<"x">>
    /\ terms_list[2].english = <<"a">> /\ terms_list[2].chinese = <<"y">>
    /\ new_terms = <<<<<<"A">>, <<"x">>>>>>
    /\ Len(terminology) = 2

\* The rows of the entries of a glossary whose target is a non-blank str, and
\* of those whose target is not the empty str.
RowsWithTarget(gl) == {[english |-> gl[i][1], chinese |-> gl[i][2]] : i \in {j \in DOMAIN gl : gl[j][2] # NotStr /\ Strip(gl[j][2]) # <<>>}}

RowsNotEmpty(gl) == {[english |-> gl[i][1], chinese |-> gl[i][2]] : i \in {j \in DOMAIN gl : gl[j][2] # <<>>}}

\* C18: a save_terminology call leaves the glossary in memory as it is and,
\* unless the write failed, leaves in the file the entries with a non-empty
\* target, every one of them, in ascending order of their keys.
C18_SaveWritesNonEmptySorted ==
    [][last_op' = "save_terminology" =>
          /\ terminology' = terminology
          /\ save_log' = "OSError" => saved' = saved
          /\ save_log' # "OSError" =>
                /\ RowsWithTarget(terminology) \subseteq {saved'[i] : i \in DOMAIN saved'}
                /\ {saved'[i] : i \in DOMAIN saved'} \subseteq RowsNotEmpty(terminology)
                /\ \A i, j \in DOMAIN saved' : i < j => StrLess(saved'[i].english, saved'[j].english)]_vars

\* ----------------------------------------------- claims: extraction mode
\* Unit u of file f has been dealt with by the loop of extract_terminology.
UnitDone(f, u) == f < fileIdx \/ (f = fileIdx /\ (u < ui \/ pc \in {"term_loop", "term_done"}))

\* Every extract_terms call is on a prose unit of a file read before; it is
\* followed at once by the save_terminology call for that unit; the calls
\* come in the order of the files and of the units, one per unit; and no
\* prose unit dealt with lacks its call.
ExtractionCallsInOrder ==
    /\ \A k \in DOMAIN events : events[k].op = "extract_terms" =>
          /\ \E j \in 1..(k - 1) : /\ events[j].op = "read" /\ events[j].file = events[k].file
                                   /\ events[k].unit \in DOMAIN events[j].code
                                   /\ ~events[j].code[events[k].unit]
          /\ k < Len(events) => events[k + 1] = CallEvent("save_terminology", events[k].file, events[k].unit)
          /\ k = Len(events) => pc = "term_save"
    /\ \A k, l \in DOMAIN events : (k < l /\ events[k].op = "extract_terms" /\ events[l].op = "extract_terms") =>
          (events[k].file < events[l].file \/ (events[k].file = events[l].file /\ events[k].unit < events[l].unit))
    /\ \A j \in DOMAIN events : events[j].op = "read" =>
          \A u \in DOMAIN events[j].code : (~events[j].code[u] /\ UnitDone(events[j].file, u)) =>
              \E k \in DOMAIN events : events[k] = CallEvent("extract_terms", events[j].file, u)

\* Between two units, once a unit has been saved without a write failure, the
\* glossary file holds every entry of the glossary that has a target.
PersistedAfterEachUnit ==
    (pc # "term_save" /\ last_op = "save_terminology" /\ save_log # "OSError") =>
        RowsWithTarget(terminology) \subseteq {saved[i] : i \in DOMAIN saved}

\* C13: extract_terminology passes every prose unit of every document to
\* extract_terms once, in document order, and no code unit; it calls
\* save_terminology after each of them before it starts the next unit, so
\* that between units the glossary file holds every entry with a target that
\* was merged so far.
C13_ExtractAndPersistPerUnit == ExtractionCallsInOrder /\ PersistedAfterEachUnit

\* ------------------------------------------------ claims: the API client
\* C14: translate_text returns in every case: the generated text when the
\* call succeeded, its input text unchanged when the call failed.
C14_TranslateTextReturns ==
    api.op = "translate_text" => api.ret = (IF api.ok THEN api.content ELSE api.original)

C14_Witness == api.op = "translate_text" /\ ~api.ok /\ api.original = Gen("en") /\ api.ret = Gen("en")

\* C15: review_translation returns in every case, and never an empty or
\* whitespace-only string: the sentinel when the call failed or the response
\* is missing, empty or whitespace-only, else the response unchanged.
C15_ReviewReturnsSentinel ==
    api.op = "review_translation" =>
        /\ api.ret \notin {None, EmptyStr, Blank}
        /\ api.ret = (IF ~api.ok \/ api.content \in {None, EmptyStr, Blank} THEN Sentinel ELSE api.content)

C15_Witness == api.op = "review_translation" /\ api.ok /\ api.content = Blank /\ api.ret = Sentinel

\* C16: polish_translation returns in every case; when the call failed it
\* returns its translation argument unchanged.
C16_PolishFallsBackToTranslation ==
    (api.op = "polish_translation" /\ ~api.ok) => api.ret = api.translation

C16_Witness ==
    /\ api.op = "polish_translation" /\ ~api.ok
    /\ api.original = Gen("en") /\ api.translation = Gen("zh") /\ api.suggestions = Gen("sug")
    /\ api.ret = Gen("zh")

\* The lines of a text: line i runs between two newlines.
LineStarts(t) == {p \in 1..Len(t) : t[p] # "\n" /\ (p = 1 \/ t[p - 1] = "\n")}

\* A line of the form 'source : target': on the line that starts at p, a
\* colon with a character of a term somewhere before it.
IsPairLine(t, p) == \E c \in p..LineEnd(t, p) : t[c] = ":" /\ \E j \in p..(c - 1) : IsTermChar(t[j])

\* C17: extract_terms of the API client returns in every case: the empty
\* list when the call failed, when the response is missing or empty, and
\* when no line of the response has the form 'source : target'; and no entry
\* it returns has an empty source term.
C17_ExtractTermsEmptyOnFailure ==
    api.op = "extract_terms" =>
        /\ (~api.ok \/ api.content = NotStr \/ api.content = <<>>
               \/ \A p \in LineStarts(api.content) : ~IsPairLine(api.content, p)) => api.ret = <<>>
        /\ \A i \in DOMAIN api.ret : api.ret[i].english # <<>>

\* ------------------------------------------------ claims: glossary lookup
\* C19: find_relevant_terms returns entries of the glossary, the longer
\* source terms first, none of them twice, also when the text holds a term
\* and its plural, and only entries whose source and target are non-empty.
C19_RelevantTermsOrderedOnce ==
    pc = "found" =>
        LET r == units[1].technical_terms
        IN /\ \A i \in DOMAIN r : \E k \in DOMAIN terminology : terminology[k] = r[i]
           /\ \A i, j \in DOMAIN r : i < j => (Len(r[i][1]) >= Len(r[j][1]) /\ r[i][1] # r[j][1])
           /\ \A i \in DOMAIN r : r[i][1] # <<>> /\ r[i][2] # <<>> /\ r[i][2] # NotStr

\* ------------------------------------------------------ claims: segmenter
\* C20: the original_text of every unit that _extract_translation_units
\* emits ends with a newline, that of a code unit closed by its fence line and
\* that of the last unit of the document included.
C20_UnitsEndWithNewline ==
    pc # "segment" =>
        \A i \in DOMAIN units :
            LET ls == units[i].original_text.ls
            IN ls # <<>> /\ ls[Len(ls)].nl

\* C21: no unit that _extract_translation_units emits has an empty
\* original_text, whatever the document: the buffer is flushed for its size
\* only when it holds something, also when the first line, or the first line
\* after a closed code block, is longer than the threshold.
C21_NoEmptyUnit ==
    pc # "segment" => \A i \in DOMAIN units : units[i].original_text # EmptyStr

LastFence(d) == CHOOSE p \in FenceLines(d) : \A q \in FenceLines(d) : q <= p

\* Unit i begins with line p of the document.
BeginsWith(i, p) == units[i].original_text.ls # <<>> /\ units[i].original_text.ls[1].p = p

\* C23 as stated: with an odd number of fence lines, the buffer opened by the
\* unmatched fence is the last unit, and it is an ordinary unit: the pipeline
\* does not take it for code and translates it.
C23_UnmatchedFenceIsOrdinary ==
    (pc # "segment" /\ ~EvenFences(doc)) =>
        /\ BeginsWith(Len(units), LastFence(doc))
        /\ ~is_code_block(units[Len(units)])
        /\ task[Len(units)] = "done" => CallsOf(Len(units), "translate") # <<>>

\* C23, amended: with an odd number of fence lines, the buffer opened by the
\* unmatched fence is emitted as a unit, and the pipeline takes that unit for
\* code: it holds the marker, so it comes out of translate_unit untranslated,
\* after no Gateway call.
C23_UnmatchedFenceIsCode ==
    (pc # "segment" /\ ~EvenFences(doc)) =>
        \E i \in DOMAIN units :
            /\ BeginsWith(i, LastFence(doc))
            /\ task[i] \in {"idle", "queued", "done"}
            /\ calls[i] = <<>>
            /\ task[i] = "done" => /\ units[i].translation = units[i].original_text
                                   /\ units[i].polished_translation = units[i].original_text

C23_Witness ==
    /\ ~EvenFences(doc)
    /\ Len(units) >= 2
    /\ BeginsWith(Len(units), LastFence(doc))
    /\ Len(units[Len(units)].original_text.ls) = 2
    /\ task[Len(units)] = "done"
    /\ units[Len(units)].translation = units[Len(units)].original_text

\* ------------------------------------------ claims: the stages of the pipeline
\* Unit i is a prose unit.
ProseUnit(i) == ~HasFenceMarker(units[i].original_text)

\* The review step has to call the Gateway for unit i.
ReviewDue(i) == Truthy(units[i].translation) /\ units[i].translation # units[i].original_text

\* C24: for a prose unit the review step calls Gateway review once when the
\* translation is non-empty and differs from original_text, and only then;
\* when it makes no call it sets suggestions to the empty string.
C24_ReviewCalledIffTranslated ==
    \A i \in DOMAIN task : ProseUnit(i) =>
        /\ task[i] \in {"idle", "queued", "translated"} => CallsOf(i, "review") = <<>>
        /\ task[i] \in {"reviewed", "done"} =>
               /\ Len(CallsOf(i, "review")) = (IF ReviewDue(i) THEN 1 ELSE 0)
               /\ ~ReviewDue(i) => units[i].suggestions = EmptyStr

C24_Witness ==
    \E i \in DOMAIN task : ProseUnit(i) /\ task[i] = "reviewed" /\ Len(CallsOf(i, "review")) = 1 /\ units[i].suggestions = Gen("sug")

\* C25: for a prose unit the polish step sets polished_translation to the
\* empty string when translation is empty and to translation when it equals
\* original_text, after no polish call; otherwise it makes one Gateway polish
\* call, with the unit's original_text, translation and suggestions, and sets
\* polished_translation to what the call returns.
C25_PolishStep ==
    [][\A i \in DOMAIN task :
          (i \in DOMAIN task' /\ ProseUnit(i) /\ task[i] = "reviewed" /\ task'[i] = "done") =>
              LET u == units[i]
              IN IF ~Truthy(u.translation)
                 THEN units'[i].polished_translation = EmptyStr /\ calls'[i] = calls[i]
                 ELSE IF u.translation = u.original_text
                      THEN units'[i].polished_translation = u.translation /\ calls'[i] = calls[i]
                      ELSE \E r \in ApiOutcomes(PolishContents) :
                              /\ calls'[i] = Append(calls[i], Call("polish", u.original_text, u.translation, u.suggestions, r.ok))
                              /\ units'[i].polished_translation = (IF r.ok THEN r.content ELSE u.translation)]_vars

C25_Witness ==
    \E i \in DOMAIN task : /\ ProseUnit(i) /\ task[i] = "done"
                            /\ Len(CallsOf(i, "polish")) = 1 /\ CallsOf(i, "polish")[1].suggestions = Sentinel
                            /\ units[i].polished_translation = Gen("pol")

\* The Gateway calls a prose unit has made when its task is at each stage.
StageOrder(i) ==
    LET ops == SelectSeq(OpsOf(i), LAMBDA o : o \in GatewayOps)
    IN CASE task[i] \in {"idle", "queued"} -> calls[i] = <<>>
         [] task[i] = "translated" -> ops = <<"translate">>
         [] task[i] = "reviewed" -> ops \in {<<"translate">>, <<"translate", "review">>}
         [] task[i] = "done" -> ops \in {<<"translate">>, <<"translate", "review">>, <<"translate", "polish">>, <<"translate", "review", "polish">>}
         [] OTHER -> TRUE

\* A step of the task of a prose unit moves it on by one stage, and a call
\* is made only by the step of its stage.
StageStep(i) ==
    (i \in DOMAIN task' /\ ProseUnit(i) /\ units'[i].original_text = units[i].original_text) =>
        /\ task'[i] # task[i] => <<task[i], task'[i]>> \in {<<"idle", "queued">>, <<"queued", "translated">>, <<"translated", "reviewed">>, <<"reviewed", "done">>}
        /\ Len(CallsOf(i, "translate")) # Len(SelectSeq(calls'[i], LAMBDA c : c.op = "translate")) => task[i] = "queued"
        /\ Len(CallsOf(i, "review")) # Len(SelectSeq(calls'[i], LAMBDA c : c.op = "review")) => task[i] = "translated"
        /\ Len(CallsOf(i, "polish")) # Len(SelectSeq(calls'[i], LAMBDA c : c.op = "polish")) => task[i] = "reviewed"

\* C26: translate_unit runs its stages on a prose unit in the order
\* translate, review, polish: Gateway translate is called once, before any
\* other call; review is not called before translate has returned, polish
\* not before the review step has finished, and the unit is returned only
\* after the polish step.
C26_StagesInOrder ==
    /\ [](\A i \in DOMAIN task : ProseUnit(i) => StageOrder(i))
    /\ [][\A i \in DOMAIN task : StageStep(i)]_vars

C26_Witness ==
    \E i \in DOMAIN task : ProseUnit(i) /\ task[i] = "done" /\ OpsOf(i) = <<"find_relevant_terms", "translate", "review", "polish">>

\* ------------------------------------------------- claims: shared state
\* C27: while translate_file and translate_directory run, no step, of the
\* orchestrating thread or of a unit task, in any interleaving, changes the
\* glossary in memory.
C27_GlossaryReadOnly == [][terminology' = terminology]_vars

C27_Witness ==
    /\ terminology # <<>>
    /\ Len(units) >= 2
    /\ task[1] = "translated" /\ task[2] = "reviewed"
    /\ \A i \in 1..2 : \E j \in DOMAIN calls[i] : calls[i][j].op = "find_relevant_terms"

\* C29: when translate_file has returned, with a success or with a failure,
\* the progress context is cleared: no current file, current_unit_index -1,
\* total_units 0.
C29_ContextCleared ==
    pc = "returned" => context = NewContext

\* C30: no path of translate_unit and no step of _process_translation_units
\* changes the original_text of a unit: at every moment each unit of the file
\* in hand holds the text the segmenter gave it.
C30_OriginalTextKept ==
    units # <<>> =>
        /\ Len(units) = Len(extract_translation_units(doc))
        /\ \A i \in DOMAIN units : units[i].original_text = extract_translation_units(doc)[i].original_text

C30_Witness ==
    /\ pc = "returned" /\ result.success
    /\ Len(units) = 2
    /\ HasFenceMarker(units[1].original_text) /\ units[1].translation = units[1].original_text
    /\ units[2].translation = Gen("zh") /\ units[2].polished_translation = Gen("pol")

\* C28: take two runs over unit lists that agree on unit i and differ in the
\* texts of the other units, in what the model service answers for them and
\* in the order in which the tasks take their steps.  When the task of unit
\* i has returned in both, unit i has the same translation, suggestions and
\* polished_translation in both.
C28_UnitIndependence ==
    (pc = "twin_b" /\ twin.task[twin.i] = "done") =>
        /\ twin.units[twin.i].translation = units[twin.i].translation
        /\ twin.units[twin.i].suggestions = units[twin.i].suggestions
        /\ twin.units[twin.i].polished_translation = units[twin.i].polished_translation

C28_Witness ==
    /\ pc = "twin_b"
    /\ Len(units) = 2
    /\ twin.i = 2
    /\ \A j \in 1..2 : twin.task[j] = "done"
    /\ units[1].original_text # twin.units[1].original_text
    /\ units[1].polished_translation # twin.units[1].polished_translation
    /\ units[2].translation = Gen("zh") /\ units[2].suggestions = Gen("sug") /\ units[2].polished_translation = Gen("pol")

\* C31: after any sequence of a glossary load, extract_terms calls and
\* save_terminology calls, every key of the glossary in memory is in
\* lower-case form, and no two entries have the same lower-cased source term.
C31_KeysLowerCase ==
    \A i \in DOMAIN terminology :
        /\ \A k \in DOMAIN terminology[i][1] : terminology[i][1][k] # "A"
        /\ \A j \in DOMAIN terminology : j # i => Lower(terminology[j][1]) # Lower(terminology[i][1])

C31_Witness ==
    /\ last_op = "save_terminology"
    /\ \E k \in DOMAIN terms_list : terms_list[k].english = <<"A">>
    /\ HasKey(terminology, <<"a">>)
    /\ saved # <<>>

\* C32: provided every call of the model service returns or fails, every
\* unit task that translate_file has submitted finishes, the orchestrating
\* thread leaves the with-block of the pool, and translate_file returns a
\* result, a success or a failure.
C32_TranslateFileReturns ==
    /\ \A i \in 1..(MaxFileLines + 1) : (i \in DOMAIN task /\ task[i] = "queued") ~> (i \in DOMAIN task /\ Finished(i))
    /\ (pc = "collect") ~> (pc \in {"write", "except"})
    /\ (pc = "read") ~> (pc = "returned")

C32_Witness ==
    /\ pc = "returned"
    /\ ~result.success /\ exc = "TranslatorError"
    /\ Len(units) = 2
    /\ \E i \in 1..2 : task[i] = "raised" /\ task[3 - i] = "done" /\ Len(calls[3 - i]) = 4

\* C33: when a run of _process_translation_units over n units has succeeded,
\* translate_unit has been called once for each unit, and the output file
\* holds n blocks: the i-th is the polished_translation of unit i followed
\* by "\n\n".  No unit is left out and none is written twice.
C33_OneBlockPerUnit ==
    (InFile /\ pc = "returned" /\ result.success) =>
        /\ \A i \in DOMAIN units :
              /\ task[i] = "done"
              /\ Len(CallsOf(i, "translate")) = (IF is_code_block(units[i]) THEN 0 ELSE 1)
              /\ \A op \in {"find_relevant_terms", "review", "polish"} : Len(CallsOf(i, op)) <= 1
        /\ OutBlocks = [i \in DOMAIN units |-> <<units[i].polished_translation, "\n\n">>]

C33_Witness ==
    /\ InFile /\ pc = "returned" /\ result.success
    /\ Len(units) = 2 /\ Len(OutBlocks) = 2
    /\ Len(calls[1]) = 4 /\ Len(calls[2]) = 4
    /\ units[1].polished_translation = Gen("pol")
    /\ units[2].polished_translation = Gen("zh")

RECURSIVE Concatenated(_)
Concatenated(us) == IF us = <<>> THEN <<>> ELSE Head(us).original_text.ls \o Concatenated(Tail(us))

\* Line i closes a code block: it is the second, fourth, ... line that holds
\* a fence marker.
ClosesFence(d, i) == IsFenceLine(d[i]) /\ FenceRank(d, i) % 2 = 0

\* C35: the texts of the units, concatenated in order, are the lines of the
\* input, each once and in the order of the input, each followed by a
\* newline but the lines that close a code block.  No line is lost, repeated
\* or moved to another place.
C35_SegmentationLossless ==
    pc # "segment" =>
        Concatenated(units) = [i \in DOMAIN doc |-> [c |-> doc[i], p |-> i, nl |-> ~ClosesFence(doc, i)]]

C35_Witness ==
    /\ pc = "segmented"
    /\ Len(doc) = 4 /\ Len(units) = 3
    /\ doc[1] = "S" /\ doc[2] = "F" /\ doc[3] = "F" /\ doc[4] = "L"
    /\ Len(units[2].original_text.ls) = 2

\* The Gateway calls unit i has made.
GatewayCalls(i) == SelectSeq(calls[i], LAMBDA c : c.op \in GatewayOps)

\* C36: when translate_unit has returned a unit, it has called Gateway
\* review as often as Gateway polish, so it has made no Gateway call (a code
\* unit), one (translate alone) or three (translate, review, polish), never
\* two; a prose unit has made one or three.
C36_ReviewIffPolish ==
    \A i \in DOMAIN task : task[i] = "done" =>
        /\ Len(CallsOf(i, "review")) = Len(CallsOf(i, "polish"))
        /\ Len(GatewayCalls(i)) \in {0, 1, 3}
        /\ is_code_block(units[i]) => Len(GatewayCalls(i)) = 0
        /\ ProseUnit(i) => Len(GatewayCalls(i)) \in {1, 3}

C36_Witness ==
    \E i \in DOMAIN task : /\ ProseUnit(i) /\ task[i] = "done"
                            /\ Len(GatewayCalls(i)) = 3
                            /\ ~CallsOf(i, "review")[1].ok
                            /\ units[i].suggestions = Sentinel

\* Entry j of the list ts is the first one of its key that the loop of
\* extract_terms does not skip.
FirstOfKey(ts, j) == ValidEntry(ts[j]) /\ \A i \in 1..(j - 1) : ~(ValidEntry(ts[i]) /\ KeyOf(ts[i]) = KeyOf(ts[j]))

\* C37: under extract_terms the glossary only grows.  Every key it held
\* before a call it holds after the call with the same target, an empty
\* target included; and of the entries of one response that have the same
\* new key, the first gives the target that is stored.
C37_GlossaryOnlyGrows ==
    [][last_op' = "extract_terms" =>
          /\ \A i \in DOMAIN terminology : HasKey(terminology', terminology[i][1]) /\ Lookup(terminology', terminology[i][1]) = terminology[i][2]
          /\ Len(terminology') >= Len(terminology)
          /\ \A j \in DOMAIN terms_list' : (FirstOfKey(terms_list', j) /\ ~HasKey(terminology, KeyOf(terms_list'[j]))) =>
                (HasKey(terminology', KeyOf(terms_list'[j])) /\ Lookup(terminology', KeyOf(terms_list'[j])) = StrippedField(terms_list'[j].chinese))]_vars

\* A response gave "a" with no target and then "A" with the target "x":
\* the glossary holds "a" with the empty target.
C37_Witness ==
    /\ last_op = "extract_terms"
    /\ Len(terms_list) = 2
    /\ terms_list[1] = [shape |-> "dict", english |-> <<"a">>, chinese |-> <<>>]
    /\ terms_list[2] = [shape |-> "dict", english |-> <<"A">>, chinese |-> <<"x">>]
    /\ HasKey(terminology, <<"a">>) /\ Lookup(terminology, <<"a">>) = <<>>
    /\ new_terms = <<>>

\* The output file of the file in hand is as translate_file found it.
OutputUntouched == outFiles[fileIdx] \in {NoFile, StaleFile}

\* A unit task has been submitted.
Dispatched == \E i \in DOMAIN task : task[i] # "idle"

\* C38: translate_file reads, segments, derives and empties the output
\* file, dispatches the units and writes, in this order.  Up to the step
\* that empties it the output file is neither created nor truncated, so a
\* failure of the read or of the segmentation leaves it untouched; and no
\* unit is dispatched before the output file has been emptied.
C38_StepsInOrder ==
    /\ [](InFile =>
            /\ pc \in {"read", "extract", "out_path", "init_output"} => (OutputUntouched /\ ~Dispatched)
            /\ exc = "FileNotFoundError" => (OutputUntouched /\ ~Dispatched /\ units = <<>>)
            /\ pc \in {"out_path", "init_output", "submit"} => units = extract_translation_units(doc)
            /\ Dispatched => outFiles[fileIdx].exists
            /\ (Dispatched /\ pc \in {"collect", "shutdown"}) => outFiles[fileIdx].blocks = <<>>)
    /\ [][/\ outFiles' # outFiles => pc \in {"init_output", "write"}
          /\ (pc = "init_output" /\ pc' = "submit") => outFiles'[fileIdx] = [exists |-> TRUE, blocks |-> <<>>]
          /\ (Dispatched' /\ ~Dispatched) => (pc = "submit" /\ outFiles[fileIdx] = [exists |-> TRUE, blocks |-> <<>>])]_vars

C38_Witness ==
    /\ InFile /\ pc = "collect"
    /\ Len(units) = 2
    /\ task[1] = "queued" /\ task[2] = "translated"
    /\ outFiles[fileIdx] = [exists |-> TRUE, blocks |-> <<>>]

\* The step in hand is the except branch taken for a file that could not be
\* read or segmented.
FileSkipped == pc = "term_read" /\ pc' = "term_loop"

\* C39: in extract_terminology a file that cannot be read or segmented does
\* not end the run.  The failing step changes neither the glossary nor the
\* glossary file and leaves the loop at its head, from where the next file is
\* taken as long as there is one, so that the run ends only after the last
\* file; and what was merged and written for earlier files stays: no step
\* removes an entry of the glossary, or a row of the glossary file that the
\* glossary holds with a target.
C39_FailedFileSkipped ==
    /\ [](pc = "term_done" => fileIdx = nFiles)
    /\ [][/\ FileSkipped => (terminology' = terminology /\ saved' = saved /\ fileIdx' = fileIdx /\ events' = events)
          /\ (pc = "term_loop" /\ fileIdx < nFiles) => (pc' = "term_read" /\ fileIdx' = fileIdx + 1)
          /\ \A i \in DOMAIN terminology : HasKey(terminology', terminology[i][1]) /\ Lookup(terminology', terminology[i][1]) = terminology[i][2]
          /\ \A i \in DOMAIN saved : saved[i] \in RowsWithTarget(terminology) => \E j \in DOMAIN saved' : saved'[j] = saved[i]]_vars

\* The first of two files could not be read; the second was read, and a
\* term of its first unit was merged and written.
C39_Witness ==
    /\ pc = "term_done"
    /\ nFiles = 2
    /\ \E k \in DOMAIN events : events[k] = CallEvent("save_terminology", 2, 1)
    /\ \A k \in DOMAIN events : events[k].op = "read" => events[k].file = 2
    /\ HasKey(terminology, <<"a">>) /\ Lookup(terminology, <<"a">>) = <<"x">>
    /\ \E i \in DOMAIN saved : saved[i] = [english |-> <<"a">>, chinese |-> <<"x">>]

====
